---------------------------- MODULE Spec2Model ----------------------------
(***************************************************************************)
(* The asciiart conversion pipeline (package asciiart):                    *)
(*   Convert = DownscaleImage ; MapLuminosity ; [ApplySobel] ;             *)
(*             ASCIIGenWithSobel | ASCIIGen                                *)
(* together with the built-in colour mappers (3, 4, 8 and 24 bit).         *)
(*                                                                         *)
(* Conventions                                                             *)
(*  - A pixel is <<r, g, b, a>>: the four 8-bit values the code obtains    *)
(*    from color.RGBA() by `>> 8`.                                         *)
(*  - An image is [w, h, px] with px a function on 0 .. w*h-1, the pixel   *)
(*    (x, y) at index x + y*w.                                             *)
(*  - A float64 ratio is an exact pair <<num, den>>, den > 0. The inputs   *)
(*    are chosen so that every float64 operation of the code on them is    *)
(*    exact or is followed by a truncation that the rounding cannot move   *)
(*    (see the notes at each use).                                         *)
(*  - A string is a sequence of one-character strings; ESC is \x1b.        *)
(*    The output builder is the sequence of the chunks written to it, one  *)
(*    chunk per WriteString / WriteRune call.                              *)
(***************************************************************************)
EXTENDS Integers, Sequences, FiniteSets, TLC

VARIABLES
    a,              \* the AsciiConverter (configuration)
    src,            \* the image handed to Convert
    targetWidth,    \* Convert's targetWidth
    targetHeight,   \* Convert's targetHeight
    pc,             \* position inside Convert
    img,            \* the image DownscaleImage returned
    effectiveAspectRatio, \* the ratio DownscaleImage returned
    lumImg,         \* LumData of the luminosity provider
    sobelImg,       \* G_Grad, G_Mag2, G_Laplacian of the sobel provider
    out,            \* asciiBuilder: the chunks written so far
    pos,            \* number of pixels the generator has written (row-major)
    prevColor,      \* ASCIIGen*/prevColor
    prevWasBold,    \* ASCIIGenWithSobel/prevWasBold
    shared,         \* asciiart/ascii_art.go: the converter several calls share
    callPc,         \* asciiart/ascii_art.go: each call's position in DownscaleImage
    osArgs,         \* cmd/asciiart: the flags of the command line, in order
    flagIdx,        \* cmd/asciiart: number of flags flag.Parse has consumed
    cliWidth,       \* cmd/asciiart/main: width
    cliHeight,      \* cmd/asciiart/main: height
    args,           \* cmd/asciiart/main: flag.Args(), the input files
    stdin,          \* cmd/asciiart/main: the lines of standard input
    cliPc,          \* cmd/asciiart/main: position inside main
    argIdx,         \* cmd/asciiart/main: number of inputs the loop has taken
    stdout,         \* what main has written to os.Stdout
    stderr          \* what has been written to os.Stderr

convertVars == <<a, src, targetWidth, targetHeight, pc, img, effectiveAspectRatio,
                 lumImg, sobelImg, out, pos, prevColor, prevWasBold>>

sharedVars == <<shared, callPc>>

cliVars == <<osArgs, flagIdx, cliWidth, cliHeight, args, stdin, cliPc, argIdx, stdout, stderr>>

vars == <<convertVars, sharedVars, cliVars>>

----------------------------------------------------------------------------
(* Bounds of the model *)

\* largest source width/height of the pipeline specification
MaxSrcDim == 2
\* largest targetWidth/targetHeight of the pipeline specification
MaxTarget == 2
\* largest source and target width/height of the downscaling specification
MaxDownDim == 4
\* number of evenly spread channel levels of the colour-mapper specification
NumLevels == 4
\* number of goroutines that call Convert on one shared converter
NumCalls == 2
\* largest number of flags on the command line
MaxFlags == 2
\* largest number of inputs (file arguments or lines of standard input)
MaxInputs == 2

----------------------------------------------------------------------------
(* Arithmetic helpers *)

Min(x, y) == IF x <= y THEN x ELSE y
Max(x, y) == IF x >= y THEN x ELSE y
Abs(x) == IF x < 0 THEN -x ELSE x

\* Go's integer division: truncation toward zero (d > 0)
Quot(n, d) == IF n >= 0 THEN n \div d ELSE -((-n) \div d)

RECURSIVE Pow2(_)
Pow2(n) == IF n = 0 THEN 1 ELSE 2 * Pow2(n - 1)

\* Go's bitwise | on the three disjoint byte lanes used by the 24-bit mapper
RECURSIVE BitOr(_, _)
BitOr(x, y) ==
    IF x = 0 THEN y
    ELSE IF y = 0 THEN x
    ELSE 2 * BitOr(x \div 2, y \div 2) + (IF (x % 2 = 1) \/ (y % 2 = 1) THEN 1 ELSE 0)

Shl(x, n) == x * Pow2(n)

----------------------------------------------------------------------------
(* Strings: fmt.Sprintf("%d") and the escape formats *)

ESC == "ESC"

DigitChar(d) ==
    CASE d = 0 -> "0" [] d = 1 -> "1" [] d = 2 -> "2" [] d = 3 -> "3" [] d = 4 -> "4"
      [] d = 5 -> "5" [] d = 6 -> "6" [] d = 7 -> "7" [] d = 8 -> "8" [] d = 9 -> "9"

RECURSIVE DecNat(_)
DecNat(n) == IF n < 10 THEN <<DigitChar(n)>> ELSE DecNat(n \div 10) \o <<DigitChar(n % 10)>>

\* %d
Dec(n) == IF n < 0 THEN <<"-">> \o DecNat(-n) ELSE DecNat(n)

format4bitCode(code) == <<ESC, "[">> \o Dec(code) \o <<"m">>

format8bitCode(code) == <<ESC, "[", "3", "8", ";", "5", ";">> \o Dec(code) \o <<"m">>

\* mutant: green and blue exchanged in the escape string
format24bitCode_SwappedGB(r, g, b) ==
    <<ESC, "[", "3", "8", ";", "2", ";">> \o Dec(r) \o <<";">> \o Dec(b) \o <<";">> \o Dec(g) \o <<"m">>

format24bitCode(r, g, b) ==
    <<ESC, "[", "3", "8", ";", "2", ";">> \o Dec(r) \o <<";">> \o Dec(g) \o <<";">> \o Dec(b) \o <<"m">>

ResetStr == <<ESC, "[", "0", "m">>
BoldOnStr == <<ESC, "[", "1", "m">>
BoldOffStr == <<ESC, "[", "2", "2", "m">>
NewLine == <<"\n">>

----------------------------------------------------------------------------
(* Images and the luminosity provider *)

At(im, x, y) == im.px[x + y * im.w]

\* defaultLuminosityProvider.LuminosityAt
LuminosityAt(lumProv, x, y) == lumProv.LumData[x + lumProv.width * y]

\* defaultLuminosityProvider.SafeLuminosityAt: the index it reads, x and y
\* clamped into the grid
SafeIndex(lumProv, x, y) ==
    LET xSafe == IF x < 0 THEN 0 ELSE IF x >= lumProv.width THEN lumProv.width - 1 ELSE x
        ySafe == IF y < 0 THEN 0 ELSE IF y >= lumProv.height THEN lumProv.height - 1 ELSE y
    IN  xSafe + lumProv.width * ySafe

\* defaultLuminosityProvider.SafeLuminosityAt: replicate border
SafeLuminosityAt(lumProv, x, y) == lumProv.LumData[SafeIndex(lumProv, x, y)]

\* A Go array/slice literal as a 0-based function
Arr(s) == [i \in 0 .. Len(s) - 1 |-> s[i + 1]]

----------------------------------------------------------------------------
(* DownscalingModes *)

WithRespectToAspectRatio == 0
IgnoreAspectRatio == 1

\* a.OutputAspectRatio compared with 1 (ratio = <<num, den>>, den > 0)
RatioEq1(r) == r[1] = r[2]
RatioGe1(r) == r[1] >= r[2]

----------------------------------------------------------------------------
(* AsciiConverter.DownscaleImage *)

\* mutant: the derived axis taken from the other target instead of the ratio
DownscaleDims_IgnoresRatio(conv, tw, th) ==
    IF conv.DownscalingMode \in {WithRespectToAspectRatio, IgnoreAspectRatio}
    THEN <<tw, th>>
    ELSE <<-1, -1>>

\* The switch on a.DownscalingMode: <<newWidth, newHeight>>, or <<-1, -1>>
\* for the default branch (panic "Unknown downscaling mode").
\* int(float64(targetWidth) / ratio) and int(float64(targetHeight) * ratio)
\* truncate an exactly representable or correctly rounded non-integral
\* quotient, so they are the integer quotients below.
DownscaleDims(conv, tw, th) ==
    LET ratio == conv.OutputAspectRatio IN
    IF conv.DownscalingMode = WithRespectToAspectRatio THEN
        IF RatioGe1(ratio)
        THEN <<tw, Quot(tw * ratio[2], ratio[1])>>
        ELSE <<Quot(th * ratio[1], ratio[2]), th>>
    ELSE IF conv.DownscalingMode = IgnoreAspectRatio THEN <<tw, th>>
    ELSE <<-1, -1>>

\* The nearest-neighbour sampling loop into image.NewRGBA(newWidth x newHeight)
Resample(s, newWidth, newHeight) ==
    [w |-> newWidth, h |-> newHeight,
     px |-> [i \in 0 .. newWidth * newHeight - 1 |->
                LET x == i % newWidth
                    y == i \div newWidth
                    srcX == Quot(x * s.w, newWidth)
                    srcY == Quot(y * s.h, newHeight)
                IN  At(s, srcX, srcY)]]

\* mutant: the identity shortcut left out
DownscaleImage_NoShortcut(conv, s, tw, th) ==
    LET d == DownscaleDims(conv, tw, th) IN
    IF d = <<-1, -1>> \/ d[1] = 0 \/ d[2] = 0
    THEN [panic |-> TRUE, img |-> s, ratio |-> <<0, 1>>]
    ELSE [panic |-> FALSE, img |-> Resample(s, d[1], d[2]), ratio |-> <<d[1], d[2]>>]

\* mutant: the check of newHeight left out
DownscaleImage_NoHeightCheck(conv, s, tw, th) ==
    IF RatioEq1(conv.OutputAspectRatio) /\ conv.DownscalingMode = WithRespectToAspectRatio
    THEN [panic |-> FALSE, img |-> s, ratio |-> conv.OutputAspectRatio]
    ELSE LET d == DownscaleDims(conv, tw, th) IN
         IF d = <<-1, -1>> \/ d[1] = 0
         THEN [panic |-> TRUE, img |-> s, ratio |-> <<0, 1>>]
         ELSE [panic |-> FALSE, img |-> Resample(s, d[1], d[2]),
               ratio |-> <<d[1], IF d[2] = 0 THEN 1 ELSE d[2]>>]

\* The whole function: [panic, img, ratio]
DownscaleImage(conv, s, tw, th) ==
    IF RatioEq1(conv.OutputAspectRatio) /\ conv.DownscalingMode = WithRespectToAspectRatio
    THEN [panic |-> FALSE, img |-> s, ratio |-> conv.OutputAspectRatio]
    ELSE LET d == DownscaleDims(conv, tw, th) IN
         IF d = <<-1, -1>> \/ d[1] = 0 \/ d[2] = 0
         THEN [panic |-> TRUE, img |-> s, ratio |-> <<0, 1>>]
         ELSE [panic |-> FALSE, img |-> Resample(s, d[1], d[2]), ratio |-> <<d[1], d[2]>>]

----------------------------------------------------------------------------
(* AsciiConverter.MapLuminosity *)

\* mutant: the luminosity not scaled back by / 255 after the alpha product
PixelLuminosity_NoAlphaDivision(p) ==
    ((p[1] * 2126 + p[2] * 7152 + p[3] * 722) \div 10000) * p[4]

\* lum := int((r8*2126 + g8*7152 + b8*722) / 10000 * a8 / 255), in uint32
\* (the largest intermediate is 255 * 10000, no wrap-around)
PixelLuminosity(p) ==
    (((p[1] * 2126 + p[2] * 7152 + p[3] * 722) \div 10000) * p[4]) \div 255

\* the provider MapLuminosity returns: the image and its LumData
MapLuminosity(im) ==
    [image |-> im, width |-> im.w, height |-> im.h,
     LumData |-> [i \in 0 .. im.w * im.h - 1 |-> PixelLuminosity(im.px[i])]]

----------------------------------------------------------------------------
(* color_mappers.go *)

\* channelSplit: (r >> 8) * a8 / 255 per channel, in uint32
channelSplit(p) ==
    <<(p[1] * p[4]) \div 255, (p[2] * p[4]) \div 255, (p[3] * p[4]) \div 255>>

giveRewards(awards, minRange, defaultRew, r, g, b) ==
    LET rgDelta == Abs(r - g)
        gbDelta == Abs(g - b)
        rbDelta == Abs(r - b)
        minDelta == Max(Max(rgDelta, gbDelta), rbDelta)
    IN  IF minDelta < minRange THEN <<r + defaultRew, g + defaultRew, b + defaultRew>>
        ELSE IF b > g /\ b > r THEN <<r, g, b + awards[2]>>
        ELSE IF r > b /\ r > g THEN <<r + awards[0], g, b>>
        ELSE IF g > b /\ g > r THEN <<r, g + awards[1], b>>
        ELSE <<r, g, b>>

default3BitOpts ==
    [ColorThresholds |-> Arr(<<140, 150, 110>>),
     DoReward |-> TRUE,
     ColorRewards |-> Arr(<<40, 20, 10>>),
     DefaultReward |-> 24,
     ColorRewardMinRange |-> 20,
     BlackLumUpper |-> 50,
     WhiteLumLower |-> 200]

default4BitOpts ==
    [ColorMapper3BitOptions |-> default3BitOpts,
     BoldColoredLumLower |-> 100,
     BoldBlackLumLower |-> 40,
     BoldWhiteLumLower |-> 240]

default8BitOpts ==
    [rStep |-> Arr(<<0, 95, 40>>),
     gStep |-> Arr(<<0, 95, 40>>),
     bStep |-> Arr(<<0, 95, 40>>),
     greyStep |-> Arr(<<8, 18, 10>>)]

\* the three channels after the optional reward step
Rewarded(opts, rgb) ==
    IF opts.DoReward
    THEN giveRewards(opts.ColorRewards, opts.ColorRewardMinRange, opts.DefaultReward,
                     rgb[1], rgb[2], rgb[3])
    ELSE rgb

\* mutant: the green and blue bits exchanged
ThresholdBits_SwappedBits(opts, rgb) ==
    (IF rgb[1] >= opts.ColorThresholds[0] THEN 1 ELSE 0)
  + (IF rgb[2] >= opts.ColorThresholds[1] THEN 4 ELSE 0)
  + (IF rgb[3] >= opts.ColorThresholds[2] THEN 2 ELSE 0)

\* code |= 0b001, 0b010, 0b100 on a zero code
ThresholdBits(opts, rgb) ==
    (IF rgb[1] >= opts.ColorThresholds[0] THEN 1 ELSE 0)
  + (IF rgb[2] >= opts.ColorThresholds[1] THEN 2 ELSE 0)
  + (IF rgb[3] >= opts.ColorThresholds[2] THEN 4 ELSE 0)

\* the closure default3BitColorMapperFactory returns: <<code, string>>
default3BitColorMapper(opts, lumProv, x, y) ==
    LET rgb == channelSplit(At(lumProv.image, x, y))
        lum == LuminosityAt(lumProv, x, y)
    IN  IF lum <= opts.BlackLumUpper THEN <<30, format4bitCode(30)>>
        ELSE IF lum >= opts.WhiteLumLower THEN <<37, format4bitCode(37)>>
        ELSE LET code == ThresholdBits(opts, Rewarded(opts, rgb)) + 30
             IN  <<code, format4bitCode(code)>>

\* mutant: the coloured codes always in their bold variant
default4BitColorMapper_AlwaysBoldColored(opts, lumProv, x, y) ==
    LET o3 == opts.ColorMapper3BitOptions
        rgb == channelSplit(At(lumProv.image, x, y))
        lum == LuminosityAt(lumProv, x, y)
    IN  IF lum <= o3.BlackLumUpper THEN
            LET code == IF lum >= opts.BoldBlackLumLower THEN 30 + 60 ELSE 30
            IN  <<code, format4bitCode(code)>>
        ELSE IF lum >= o3.WhiteLumLower THEN
            LET code == IF lum >= opts.BoldWhiteLumLower THEN 37 + 60 ELSE 37
            IN  <<code, format4bitCode(code)>>
        ELSE LET bits == ThresholdBits(o3, Rewarded(o3, rgb))
                 code == bits + 90
             IN  <<code, format4bitCode(code)>>

\* the closure default4BitColorMapperFactory returns
default4BitColorMapper(opts, lumProv, x, y) ==
    LET o3 == opts.ColorMapper3BitOptions
        rgb == channelSplit(At(lumProv.image, x, y))
        lum == LuminosityAt(lumProv, x, y)
    IN  IF lum <= o3.BlackLumUpper THEN
            LET code == IF lum >= opts.BoldBlackLumLower THEN 30 + 60 ELSE 30
            IN  <<code, format4bitCode(code)>>
        ELSE IF lum >= o3.WhiteLumLower THEN
            LET code == IF lum >= opts.BoldWhiteLumLower THEN 37 + 60 ELSE 37
            IN  <<code, format4bitCode(code)>>
        ELSE LET bits == ThresholdBits(o3, Rewarded(o3, rgb))
                 code == IF lum >= opts.BoldColoredLumLower THEN bits + 90 ELSE bits + 30
             IN  <<code, format4bitCode(code)>>

\* populateSteps on a destination of length n
populateSteps(n, rule) ==
    [i \in 0 .. n - 1 |-> IF i = 0 THEN rule[0] ELSE rule[1] + rule[2] * i]

\* the closure default8BitColorMapperFactory returns
default8BitColorMapper(opts, lumProv, x, y) ==
    LET rSteps == populateSteps(6, opts.rStep)
        gSteps == populateSteps(6, opts.gStep)
        bSteps == populateSteps(6, opts.bStep)
        greySteps == populateSteps(24, opts.greyStep)
        rgb == channelSplit(At(lumProv.image, x, y))
        r8 == rgb[1]
        g8 == rgb[2]
        b8 == rgb[3]
        r6 == Min(5, Max(0, Quot(r8 - opts.rStep[1], opts.rStep[2]) + 1))
        g6 == Min(5, Max(0, Quot(g8 - opts.gStep[1], opts.gStep[2]) + 1))
        b6 == Min(5, Max(0, Quot(b8 - opts.bStep[1], opts.bStep[2]) + 1))
        channel8sum == r8 + b8 + g8
        avgChannel8dist == channel8sum - 3 * opts.greyStep[1]
        grey24 == Min(23, Max(0, Quot(avgChannel8dist, 3) * opts.greyStep[2] + 1))
        closestR == rSteps[r6]
        closestG == gSteps[g6]
        closestB == bSteps[b6]
        closestGrey == greySteps[grey24]
        rDist == closestR - r6
        gDist == closestG - g6
        bDist == closestB - b6
        cubeDist == rDist * rDist + gDist * gDist + bDist * bDist
        grayDist == 3 * (closestGrey - grey24) * (closestGrey - grey24)
    IN  IF grayDist < cubeDist
        THEN <<232 + grey24, format8bitCode(232 + grey24)>>
        ELSE LET cubeCode == 16 + (36 * r6) + (6 * g6) + b6
             IN  <<cubeCode, format8bitCode(cubeCode)>>

\* mutant: the blue channel left out of the packed code
default24BitColorMapper_NoBlue(lumProv, x, y) ==
    LET rgb == channelSplit(At(lumProv.image, x, y))
    IN  <<BitOr(Shl(rgb[1], 16), Shl(rgb[2], 8)),
          format24bitCode(rgb[1], rgb[2], rgb[3])>>

\* the closure default24BitColorMapperFactory returns
default24BitColorMapper(lumProv, x, y) ==
    LET rgb == channelSplit(At(lumProv.image, x, y))
    IN  <<BitOr(BitOr(Shl(rgb[1], 16), Shl(rgb[2], 8)), rgb[3]),
          format24bitCode(rgb[1], rgb[2], rgb[3])>>

\* a.ANSIColorMapper: one of the four Default*ColorMapper() closures
ANSIColorMapper(conv, lumProv, x, y) ==
    CASE conv.ANSIColorMapper = "3bit" -> default3BitColorMapper(default3BitOpts, lumProv, x, y)
      [] conv.ANSIColorMapper = "4bit" -> default4BitColorMapper(default4BitOpts, lumProv, x, y)
      [] conv.ANSIColorMapper = "8bit" -> default8BitColorMapper(default8BitOpts, lumProv, x, y)
      [] conv.ANSIColorMapper = "24bit" -> default24BitColorMapper(lumProv, x, y)

----------------------------------------------------------------------------
(* Sobel *)

\* mutant: +Inf also when y = 0
computeGrad_ZeroIsPositive(x, y) ==
    IF x = 0
    THEN IF y >= 0 THEN [inf |-> 1, num |-> 0, den |-> 1]
                   ELSE [inf |-> -1, num |-> 0, den |-> 1]
    ELSE [inf |-> 0, num |-> y, den |-> x]

\* computeGrad: +Inf, -Inf or the quotient y / x
computeGrad(x, y) ==
    IF x = 0
    THEN IF y > 0 THEN [inf |-> 1, num |-> 0, den |-> 1]
                  ELSE [inf |-> -1, num |-> 0, den |-> 1]
    ELSE [inf |-> 0, num |-> y, den |-> x]

\* applySobelCentralPixel: <<gGrad[idx], gMag2[idx], gLap[idx]>>
applySobelCentralPixel(lumProv, x, y) ==
    LET gx == -1 * LuminosityAt(lumProv, x - 1, y - 1)
              + 1 * LuminosityAt(lumProv, x + 1, y - 1)
              - 2 * LuminosityAt(lumProv, x - 1, y)
              + 2 * LuminosityAt(lumProv, x + 1, y)
              - 1 * LuminosityAt(lumProv, x - 1, y + 1)
              + 1 * LuminosityAt(lumProv, x + 1, y + 1)
        gy == -1 * LuminosityAt(lumProv, x - 1, y - 1)
              - 2 * LuminosityAt(lumProv, x, y - 1)
              - 1 * LuminosityAt(lumProv, x + 1, y - 1)
              + 1 * LuminosityAt(lumProv, x - 1, y + 1)
              + 2 * LuminosityAt(lumProv, x, y + 1)
              + 1 * LuminosityAt(lumProv, x + 1, y + 1)
        invAspectRatio == lumProv.height \div lumProv.width
        l == invAspectRatio * LuminosityAt(lumProv, x, y - 1)
             + 1 * LuminosityAt(lumProv, x - 1, y)
             - 2 * (2 + 1 * invAspectRatio) * LuminosityAt(lumProv, x, y)
             + 1 * LuminosityAt(lumProv, x + 1, y)
             + invAspectRatio * LuminosityAt(lumProv, x, y + 1)
    IN  <<computeGrad(gx, gy), gx * gx + gy * gy, l>>

\* applySobelPixelSafely/gx
SafeGx(lumProv, x, y) ==
    -1 * SafeLuminosityAt(lumProv, x - 1, y - 1)
    + 1 * SafeLuminosityAt(lumProv, x + 1, y - 1)
    - 2 * SafeLuminosityAt(lumProv, x - 1, y)
    + 2 * SafeLuminosityAt(lumProv, x + 1, y)
    - 1 * SafeLuminosityAt(lumProv, x - 1, y + 1)
    + 1 * SafeLuminosityAt(lumProv, x + 1, y + 1)

\* applySobelPixelSafely/gy
SafeGy(lumProv, x, y) ==
    -1 * SafeLuminosityAt(lumProv, x - 1, y - 1)
    - 2 * SafeLuminosityAt(lumProv, x, y - 1)
    - 1 * SafeLuminosityAt(lumProv, x + 1, y - 1)
    + 1 * SafeLuminosityAt(lumProv, x - 1, y + 1)
    + 2 * SafeLuminosityAt(lumProv, x, y + 1)
    + 1 * SafeLuminosityAt(lumProv, x + 1, y + 1)

\* applySobelPixelSafely/l, with the integer invAspectRatio
SafeLaplacian(lumProv, x, y) ==
    LET invAspectRatio == lumProv.height \div lumProv.width
    IN  invAspectRatio * SafeLuminosityAt(lumProv, x, y - 1)
        + 1 * SafeLuminosityAt(lumProv, x - 1, y)
        - 2 * (2 + 1 * invAspectRatio) * SafeLuminosityAt(lumProv, x, y)
        + 1 * SafeLuminosityAt(lumProv, x + 1, y)
        + invAspectRatio * SafeLuminosityAt(lumProv, x, y + 1)

\* mutant: the magnitude left unsquared in gy
applySobelPixelSafely_GyNotSquared(lumProv, x, y) ==
    LET gx == SafeGx(lumProv, x, y)
        gy == SafeGy(lumProv, x, y)
    IN  <<computeGrad(gx, gy), gx * gx + gy, SafeLaplacian(lumProv, x, y)>>

\* applySobelPixelSafely: <<gGrad[idx], gMag2[idx], gLap[idx]>>
applySobelPixelSafely(lumProv, x, y) ==
    LET gx == SafeGx(lumProv, x, y)
        gy == SafeGy(lumProv, x, y)
    IN  <<computeGrad(gx, gy), gx * gx + gy * gy, SafeLaplacian(lumProv, x, y)>>

\* the coordinates ApplySobel's first loop hands to applySobelCentralPixel
CentralPixels(gWidth, gHeight) ==
    {<<x, y>> : x \in 1 .. gWidth - 2, y \in 1 .. gHeight - 2}

\* mutant: the third loop (left and right columns) left out
SafePixels_RowsOnly(gWidth, gHeight) ==
    {<<x, 0>> : x \in 0 .. gWidth - 1}
    \cup {<<x, gHeight - 1>> : x \in 0 .. gWidth - 1}

\* the coordinates ApplySobel's second and third loops hand to applySobelPixelSafely
SafePixels(gWidth, gHeight) ==
    {<<x, 0>> : x \in 0 .. gWidth - 1}
    \cup {<<x, gHeight - 1>> : x \in 0 .. gWidth - 1}
    \cup {<<0, y>> : y \in 1 .. gHeight - 2}
    \cup {<<gWidth - 1, y>> : y \in 1 .. gHeight - 2}

\* ApplySobel: the three arrays after the three loops; an index no loop
\* writes keeps the zero value of make()
ApplySobel(lumProv) ==
    LET gWidth == lumProv.width
        gHeight == lumProv.height
        cell(i) ==
            LET x == i % gWidth
                y == i \div gWidth
            IN  IF <<x, y>> \in SafePixels(gWidth, gHeight)
                    THEN applySobelPixelSafely(lumProv, x, y)
                ELSE IF <<x, y>> \in CentralPixels(gWidth, gHeight)
                    THEN applySobelCentralPixel(lumProv, x, y)
                ELSE <<[inf |-> 0, num |-> 0, den |-> 1], 0, 0>>
        cells == [i \in 0 .. gWidth * gHeight - 1 |-> cell(i)]
    IN  [G_Grad |-> [i \in DOMAIN cells |-> cells[i][1]],
         G_Mag2 |-> [i \in DOMAIN cells |-> cells[i][2]],
         G_Laplacian |-> [i \in DOMAIN cells |-> cells[i][3]]]

SobelGradAt(sobelProv, width, x, y) == sobelProv.G_Grad[x + y * width]
SobelMag2At(sobelProv, width, x, y) == sobelProv.G_Mag2[x + y * width]
SobelLaplacianAt(sobelProv, width, x, y) == sobelProv.G_Laplacian[x + y * width]

----------------------------------------------------------------------------
(* Glyph mappers *)

\* the rune U+0060, which a string literal here cannot hold
GraveAccent == "GRAVE"

charRamp ==
    Arr(<<
        "$", "@", "B", "%", "8", "&", "W", "M", "#", "*", "o", "a", "h", "k",
        "b", "d", "p", "q", "w", "m", "Z", "O", "0", "Q", "L", "C", "J", "U",
        "Y", "X", "z", "c", "v", "u", "n", "x", "r", "j", "f", "t", "/", "\\",
        "|", "(", ")", "1", "{", "}", "[", "]", "?", "-", "_", "+", "~", "<",
        ">", "i", "!", "l", "I", ";", ":", ",", "\"", "^", GraveAccent, "'", ".", " "
    >>)

\* mutant: the trailing - 1 of charIdx left out
LuminenceCharIdx_OffByOne(luminence) ==
    LET charLen == Cardinality(DOMAIN charRamp)
    IN  charLen - Quot(luminence * (charLen - 1), 255)

\* DefaultLuminenceMapper: int(float64(luminence) / 255 * (charLen - 1)) is
\* the integer quotient for every luminence in 0 .. 255
LuminenceCharIdx(luminence) ==
    LET charLen == Cardinality(DOMAIN charRamp)
    IN  charLen - Quot(luminence * (charLen - 1), 255) - 1

DefaultLuminenceMapper(lumProv, x, y) == charRamp[LuminenceCharIdx(LuminosityAt(lumProv, x, y))]

\* DefaultEdgeMapperFactory/stops. v2 is twice the threshold; side tells
\* whether the float64 is the value itself ("at"), the next float below it
\* (math.Nextafter toward -Inf) or above it, or +Inf.
edgeGlyphStops ==
    Arr(<<[rune |-> "=", v2 |-> -12, side |-> "below"],
          [rune |-> "\\", v2 |-> -4, side |-> "below"],
          [rune |-> "l", v2 |-> -2, side |-> "below"],
          [rune |-> "L", v2 |-> -1, side |-> "below"],
          [rune |-> "|", v2 |-> 1, side |-> "at"],
          [rune |-> "J", v2 |-> 2, side |-> "above"],
          [rune |-> "j", v2 |-> 4, side |-> "above"],
          [rune |-> "/", v2 |-> 14, side |-> "above"],
          [rune |-> "=", v2 |-> 0, side |-> "inf"]>>)

\* float64(n) > stops[s].float64 * precision / aspect_ratio, with
\* precision = 10 and aspect_ratio = ar[1] / ar[2]
AboveStop(n, s, ar) ==
    LET st == edgeGlyphStops[s] IN
    CASE st.side = "inf" -> FALSE
      [] st.side = "below" -> 2 * n * ar[1] >= 10 * st.v2 * ar[2]
      [] OTHER -> 2 * n * ar[1] > 10 * st.v2 * ar[2]

\* glyphStopsLen and idxOffset of the factory
GlyphStopsLen(ar) == Quot(1210 * ar[2], ar[1])
IdxOffset(ar) == Quot(-605 * ar[2], ar[1])

\* glyphStops[i] after the build loop: currStop only advances, past every
\* stop that i + idxOffset exceeds, so slot i holds the first stop it does
\* not exceed
GlyphStopAt(i, ar) ==
    LET currStop == CHOOSE s \in DOMAIN edgeGlyphStops :
                        /\ ~AboveStop(i + IdxOffset(ar), s, ar)
                        /\ \A t \in DOMAIN edgeGlyphStops : t < s => AboveStop(i + IdxOffset(ar), t, ar)
    IN  edgeGlyphStops[currStop].rune

\* the closure's index. int(grad * precision) of an infinite grad is out of
\* int's range: the build yields the smallest int (amd64) or a saturated int
\* (arm64); minus idxOffset, wrapping, both are negative and max(0, .) is 0.
GradIdx(grad, ar) ==
    IF grad.inf # 0 THEN Min(GlyphStopsLen(ar) - 1, 0)
    ELSE LET n == IF grad.den < 0 THEN -10 * grad.num ELSE 10 * grad.num
             d == Abs(grad.den)
         IN  Min(GlyphStopsLen(ar) - 1, Max(0, Quot(n, d) - IdxOffset(ar)))

\* the closure DefaultEdgeMapperFactory(aspect_ratio) returns
DefaultEdgeMapper(ar, sobelProv, width, x, y) ==
    GlyphStopAt(GradIdx(SobelGradAt(sobelProv, width, x, y), ar), ar)

\* glyphStops[gradIdx] panics (index out of range): the closure's index is
\* not an index of the slice make([]rune, glyphStopsLen)
EdgeMapperPanics(ar, sobelProv, width, x, y) ==
    GradIdx(SobelGradAt(sobelProv, width, x, y), ar) \notin 0 .. GlyphStopsLen(ar) - 1

----------------------------------------------------------------------------
(* The generators *)

\* mutant: the threshold scaled by the requested ratio
AdjustedGMag2Threshold_RequestedRatio(conv, ar) ==
    Quot(conv.SobelMagnitudeSqThresholdNormalized
            * conv.OutputAspectRatio[1] * conv.OutputAspectRatio[1],
         conv.OutputAspectRatio[2] * conv.OutputAspectRatio[2])

\* adjustedGMag2Threshold := int(threshold * (aspect_ratio * aspect_ratio)).
\* Exact for the thresholds and grids of this model: the ratio is dyadic, or
\* the product is far from an integer.
AdjustedGMag2Threshold(conv, ar) ==
    Quot(conv.SobelMagnitudeSqThresholdNormalized * ar[1] * ar[1], ar[2] * ar[2])

\* mutant: the magnitude compared the other way round
IsEdge_MagnitudeBelow(conv, ar, sobelProv, width, x, y) ==
    /\ SobelMag2At(sobelProv, width, x, y) <= AdjustedGMag2Threshold(conv, ar)
    /\ Abs(SobelLaplacianAt(sobelProv, width, x, y)) <= conv.SobelLaplacianThresholdNormalized

\* the edge test of ASCIIGenWithSobel
IsEdge(conv, ar, sobelProv, width, x, y) ==
    /\ SobelMag2At(sobelProv, width, x, y) >= AdjustedGMag2Threshold(conv, ar)
    /\ Abs(SobelLaplacianAt(sobelProv, width, x, y)) <= conv.SobelLaplacianThresholdNormalized

\* mutant: ESC[1m written for every edge pixel, whatever prevWasBold
ASCIIGenWithSobelPixel_BoldEveryEdge(conv, ar, lumProv, sobelProv, x, y, pColor, pBold) ==
    LET cm == ANSIColorMapper(conv, lumProv, x, y)
        colorChunk == IF cm[1] # pColor THEN <<cm[2]>> ELSE <<>>
        edge == IsEdge(conv, ar, sobelProv, lumProv.width, x, y)
        boldChunk == IF edge
                     THEN IF conv.SobelOutlineIsBold THEN <<BoldOnStr>> ELSE <<>>
                     ELSE IF pBold THEN <<BoldOffStr>> ELSE <<>>
        glyph == IF edge
                 THEN DefaultEdgeMapper(ar, sobelProv, lumProv.width, x, y)
                 ELSE DefaultLuminenceMapper(lumProv, x, y)
        eol == IF x = lumProv.width - 1 THEN <<NewLine>> ELSE <<>>
    IN  [chunks |-> colorChunk \o boldChunk \o <<(<<glyph>>)>> \o eol,
         prevColor |-> cm[1],
         prevWasBold |-> IF edge THEN (pBold \/ conv.SobelOutlineIsBold) ELSE FALSE]

\* what one iteration of ASCIIGenWithSobel's inner loop writes, and the
\* state it carries on: [chunks, prevColor, prevWasBold]
ASCIIGenWithSobelPixel(conv, ar, lumProv, sobelProv, x, y, pColor, pBold) ==
    LET cm == ANSIColorMapper(conv, lumProv, x, y)
        colorChunk == IF cm[1] # pColor THEN <<cm[2]>> ELSE <<>>
        edge == IsEdge(conv, ar, sobelProv, lumProv.width, x, y)
        boldChunk == IF edge
                     THEN IF conv.SobelOutlineIsBold /\ ~pBold THEN <<BoldOnStr>> ELSE <<>>
                     ELSE IF pBold THEN <<BoldOffStr>> ELSE <<>>
        glyph == IF edge
                 THEN DefaultEdgeMapper(ar, sobelProv, lumProv.width, x, y)
                 ELSE DefaultLuminenceMapper(lumProv, x, y)
        eol == IF x = lumProv.width - 1 THEN <<NewLine>> ELSE <<>>
    IN  [chunks |-> colorChunk \o boldChunk \o <<(<<glyph>>)>> \o eol,
         prevColor |-> cm[1],
         prevWasBold |-> IF edge THEN (pBold \/ conv.SobelOutlineIsBold) ELSE FALSE]

\* mutant: the previous code forgotten at the start of each row
ASCIIGenPixel_ColorResetPerRow(conv, lumProv, x, y, pColor) ==
    LET cm == ANSIColorMapper(conv, lumProv, x, y)
        colorChunk == IF conv.UseColor /\ (x = 0 \/ cm[1] # pColor) THEN <<cm[2]>> ELSE <<>>
        eol == IF x = lumProv.width - 1 THEN <<NewLine>> ELSE <<>>
    IN  [chunks |-> colorChunk \o <<(<<DefaultLuminenceMapper(lumProv, x, y)>>)>> \o eol,
         prevColor |-> IF conv.UseColor THEN cm[1] ELSE pColor]

\* what one iteration of ASCIIGen's inner loop writes: [chunks, prevColor]
ASCIIGenPixel(conv, lumProv, x, y, pColor) ==
    LET cm == ANSIColorMapper(conv, lumProv, x, y)
        colorChunk == IF conv.UseColor /\ cm[1] # pColor THEN <<cm[2]>> ELSE <<>>
        eol == IF x = lumProv.width - 1 THEN <<NewLine>> ELSE <<>>
    IN  [chunks |-> colorChunk \o <<(<<DefaultLuminenceMapper(lumProv, x, y)>>)>> \o eol,
         prevColor |-> IF conv.UseColor THEN cm[1] ELSE pColor]

\* what the generator writes before its loops
GenPrologue(conv) == IF conv.UseSobel THEN <<ResetStr>> ELSE <<>>

\* what the generator writes after its loops
GenEpilogue(conv) == <<ResetStr>>

----------------------------------------------------------------------------
(* Inputs *)

Black == <<0, 0, 0, 255>>
White == <<255, 255, 255, 255>>
Blue == <<0, 0, 255, 255>>

\* the pixels of the pipeline specification's images
Palette == {Black, White, Blue}

\* a w x h image alternating p0 and p1 in a checkerboard (flat when p0 = p1)
Checker(w, h, p0, p1) ==
    [w |-> w, h |-> h,
     px |-> [i \in 0 .. w * h - 1 |->
                IF ((i % w) + (i \div w)) % 2 = 0 THEN p0 ELSE p1]]

ColorMappers == {"3bit", "4bit", "8bit", "24bit"}

\* <<SobelMagnitudeSqThresholdNormalized, SobelLaplacianThresholdNormalized>>:
\* the defaults of NewDefault, a very low magnitude threshold, and the same
\* with a Laplacian threshold that lets the sharpest pixel through
Thresholds == {<<80000, 300>>, <<1, 300>>, <<1, 1020>>}

\* <<DownscalingMode, OutputAspectRatio>> of the pipeline specification
DownCases ==
    {<<WithRespectToAspectRatio, <<2, 1>>>>,
     <<WithRespectToAspectRatio, <<1, 1>>>>,
     <<IgnoreAspectRatio, <<2, 1>>>>}

\* OutputAspectRatio values of the downscaling specification (all exact
\* float64 values): 1/4, 1/2, 1, 3/2, 2, 3
DownRatios == {<<1, 4>>, <<1, 2>>, <<1, 1>>, <<3, 2>>, <<2, 1>>, <<3, 1>>}

\* the 8-bit channel values of the colour-mapper specification
ChannelLevels ==
    {(i * 255) \div (NumLevels - 1) : i \in 0 .. NumLevels - 1} \cup {10, 20, 30, 128}

AlphaLevels == {255, 128}

\* the converter New(...) builds: NewDefault's fields, the given ones replaced
Converter(mode, ratio, sobel, color, bold, mapper, magThr, lapThr) ==
    [SobelMagnitudeSqThresholdNormalized |-> magThr,
     SobelLaplacianThresholdNormalized |-> lapThr,
     SobelOutlineIsBold |-> bold,
     OutputAspectRatio |-> ratio,
     DownscalingMode |-> mode,
     UseSobel |-> sobel,
     UseColor |-> color,
     ANSIColorMapper |-> mapper]

\* the variables of Convert(src, tw, th) on converter conv at its entry
ConvertEntry(conv, s, tw, th) ==
    /\ a = conv
    /\ src = s
    /\ targetWidth = tw
    /\ targetHeight = th
    /\ pc = "Convert"
    /\ img = s
    /\ effectiveAspectRatio = <<0, 1>>
    /\ lumImg = [image |-> s, width |-> 0, height |-> 0, LumData |-> <<>>]
    /\ sobelImg = [G_Grad |-> <<>>, G_Mag2 |-> <<>>, G_Laplacian |-> <<>>]
    /\ out = <<>>
    /\ pos = 0
    /\ prevColor = -1
    /\ prevWasBold = FALSE

\* asciiart/ascii_art.go, NewDefault: the three fields DownscaleImage reads
\* (DownscaleFactor: 1, OutputAspectRatio: 2, AlwaysDownscaleToTarget: true)
SharedNewDefault ==
    [DownscaleFactor |-> <<1, 1>>,
     OutputAspectRatio |-> <<2, 1>>,
     AlwaysDownscaleToTarget |-> TRUE]

\* the goroutines that share one converter
Calls == 1 .. NumCalls

\* no goroutine is inside Convert of the shared converter
SharedUnused ==
    /\ shared = SharedNewDefault
    /\ callPc = [c \in Calls |-> "idle"]

\* cmd/asciiart/main, lines 31-39: the variables before flag.Parse, no
\* command line, nothing written
CliUnused ==
    /\ osArgs = <<>>
    /\ flagIdx = 0
    /\ cliWidth = 100
    /\ cliHeight = 100
    /\ args = <<>>
    /\ stdin = <<>>
    /\ cliPc = "flag.Parse"
    /\ argIdx = 0
    /\ stdout = <<>>
    /\ stderr = <<>>

\* the state at the entry of Convert(src, tw, th) on converter conv
Entry(conv, s, tw, th) ==
    /\ SharedUnused
    /\ CliUnused
    /\ ConvertEntry(conv, s, tw, th)

\* the pipeline: small checkerboard images, every switch of the converter
Init ==
    \E w \in 1 .. MaxSrcDim, h \in 1 .. MaxSrcDim, p0 \in Palette, p1 \in Palette,
       tw \in 1 .. MaxTarget, th \in 1 .. MaxTarget,
       dc \in DownCases, thr \in Thresholds, mapper \in ColorMappers,
       sobel \in BOOLEAN, color \in BOOLEAN, bold \in BOOLEAN :
        Entry(Converter(dc[1], dc[2], sobel, color, bold, mapper, thr[1], thr[2]),
              Checker(w, h, p0, p1), tw, th)

\* downscaling: every source size, target size, ratio and mode
InitDown ==
    \E w \in 1 .. MaxDownDim, h \in 1 .. MaxDownDim,
       tw \in 1 .. MaxDownDim, th \in 1 .. MaxDownDim,
       ratio \in DownRatios, mode \in {WithRespectToAspectRatio, IgnoreAspectRatio} :
        Entry(Converter(mode, ratio, TRUE, TRUE, TRUE, "4bit", 80000, 300),
              Checker(w, h, Black, White), tw, th)

\* the values a DownscalingMode (an int) is given: the two modes and one
\* that is neither
DownscalingModeValues == {WithRespectToAspectRatio, IgnoreAspectRatio, 2}

\* the pipeline on larger black-and-white grids: every source size, every
\* target from 0 up, every ratio and mode value, NewDefault's thresholds
InitGrid ==
    \E w \in 1 .. MaxDownDim, h \in 1 .. MaxDownDim,
       tw \in 0 .. MaxDownDim, th \in 0 .. MaxDownDim,
       ratio \in DownRatios, mode \in DownscalingModeValues, sobel \in BOOLEAN :
        Entry(Converter(mode, ratio, sobel, TRUE, TRUE, "4bit", 80000, 300),
              Checker(w, h, Black, White), tw, th)

\* the renderers on whole grids: a two-colour grid of every size taken at
\* its own size (ignore mode, target = source), every colour mapper, colour
\* and bold outline on or off, every threshold pair
InitBold ==
    \E w \in 1 .. MaxDownDim, h \in 1 .. MaxDownDim, p1 \in {White, Blue},
       thr \in Thresholds, mapper \in ColorMappers,
       sobel \in BOOLEAN, color \in BOOLEAN, bold \in BOOLEAN :
        Entry(Converter(IgnoreAspectRatio, <<2, 1>>, sobel, color, bold, mapper, thr[1], thr[2]),
              Checker(w, h, Black, p1), w, h)

\* an opaque grey pixel, of luminosity c
Grey(c) == <<c, c, c, 255>>

\* the luminosities of the grids of the sobel specification
GreyLevels == {0, 100, 255}

\* ApplySobel on whole grids: a grid of every size, flat or alternating two
\* greys, taken at its own size (ignore mode, target = source)
InitSobel ==
    \E w \in 1 .. MaxDownDim, h \in 1 .. MaxDownDim,
       c0 \in GreyLevels, c1 \in GreyLevels, sobel \in BOOLEAN :
        Entry(Converter(IgnoreAspectRatio, <<2, 1>>, sobel, TRUE, TRUE, "4bit", 80000, 300),
              Checker(w, h, Grey(c0), Grey(c1)), w, h)

\* the width of a grid so wide that 1210 / (width / 1) truncates to 0
WideWidth == 2000

\* the edge renderer on ordinary grids (as InitBold) and on a one-row black
\* grid WideWidth wide taken at its own size, magnitude threshold 0
InitEdge ==
    \/ InitBold
    \/ Entry(Converter(IgnoreAspectRatio, <<2, 1>>, TRUE, TRUE, TRUE, "4bit", 0, 300),
             Checker(WideWidth, 1, Black, Black), WideWidth, 1)

\* colour mappers: one pixel, handed over undownscaled
InitMap ==
    \E r \in ChannelLevels, g \in ChannelLevels, b \in ChannelLevels, al \in AlphaLevels,
       mapper \in ColorMappers, sobel \in BOOLEAN :
        Entry(Converter(WithRespectToAspectRatio, <<1, 1>>, sobel, TRUE, TRUE, mapper, 80000, 300),
              Checker(1, 1, <<r, g, b, al>>, <<r, g, b, al>>), 1, 1)

----------------------------------------------------------------------------
(* Convert, step by step *)

\* img, effectiveAspectRatio = a.DownscaleImage(img, targetWidth, targetHeight)
DownscaleImageStep ==
    /\ pc = "Convert"
    /\ LET res == DownscaleImage(a, src, targetWidth, targetHeight) IN
        /\ pc' = IF res.panic THEN "panic" ELSE "MapLuminosity"
        /\ img' = res.img
        /\ effectiveAspectRatio' = res.ratio
    /\ UNCHANGED <<a, src, targetWidth, targetHeight, lumImg, sobelImg, out, pos,
                   prevColor, prevWasBold>>
    /\ UNCHANGED <<sharedVars, cliVars>>

\* lumImg := a.MapLuminosity(img)
MapLuminosityStep ==
    /\ pc = "MapLuminosity"
    /\ lumImg' = MapLuminosity(img)
    /\ pc' = IF a.UseSobel THEN "ApplySobel" ELSE "ASCIIGen"
    /\ UNCHANGED <<a, src, targetWidth, targetHeight, img, effectiveAspectRatio,
                   sobelImg, out, pos, prevColor, prevWasBold>>
    /\ UNCHANGED <<sharedVars, cliVars>>

\* sobelImg := a.ApplySobel(lumImg)
ApplySobelStep ==
    /\ pc = "ApplySobel"
    /\ sobelImg' = ApplySobel(lumImg)
    /\ pc' = "ASCIIGenWithSobel"
    /\ UNCHANGED <<a, src, targetWidth, targetHeight, img, effectiveAspectRatio,
                   lumImg, out, pos, prevColor, prevWasBold>>
    /\ UNCHANGED <<sharedVars, cliVars>>

\* ASCIIGenWithSobel / ASCIIGen up to the loops
GenBegin ==
    /\ pc \in {"ASCIIGenWithSobel", "ASCIIGen"}
    /\ out' = GenPrologue(a)
    /\ pos' = 0
    /\ prevColor' = -1
    /\ prevWasBold' = FALSE
    /\ pc' = IF a.UseSobel THEN "SobelLoop" ELSE "Loop"
    /\ UNCHANGED <<a, src, targetWidth, targetHeight, img, effectiveAspectRatio,
                   lumImg, sobelImg>>
    /\ UNCHANGED <<sharedVars, cliVars>>

\* one iteration of ASCIIGenWithSobel's inner loop (and the row's newline
\* after the last column); the iteration panics, and Convert with it, when
\* the pixel is an edge and the edge mapper indexes outside glyphStops
SobelLoopStep ==
    /\ pc = "SobelLoop"
    /\ pos < lumImg.width * lumImg.height
    /\ IF /\ IsEdge(a, effectiveAspectRatio, sobelImg, lumImg.width,
                    pos % lumImg.width, pos \div lumImg.width)
          /\ EdgeMapperPanics(effectiveAspectRatio, sobelImg, lumImg.width,
                              pos % lumImg.width, pos \div lumImg.width)
       THEN /\ pc' = "panic"
            /\ UNCHANGED <<out, pos, prevColor, prevWasBold>>
       ELSE /\ LET step == ASCIIGenWithSobelPixel(a, effectiveAspectRatio, lumImg, sobelImg,
                                                  pos % lumImg.width, pos \div lumImg.width,
                                                  prevColor, prevWasBold) IN
                /\ out' = out \o step.chunks
                /\ prevColor' = step.prevColor
                /\ prevWasBold' = step.prevWasBold
            /\ pos' = pos + 1
            /\ pc' = pc
    /\ UNCHANGED <<a, src, targetWidth, targetHeight, img, effectiveAspectRatio,
                   lumImg, sobelImg>>
    /\ UNCHANGED <<sharedVars, cliVars>>

\* one iteration of ASCIIGen's inner loop (and the row's newline)
LoopStep ==
    /\ pc = "Loop"
    /\ pos < lumImg.width * lumImg.height
    /\ LET step == ASCIIGenPixel(a, lumImg, pos % lumImg.width, pos \div lumImg.width,
                                 prevColor) IN
        /\ out' = out \o step.chunks
        /\ prevColor' = step.prevColor
    /\ pos' = pos + 1
    /\ UNCHANGED <<a, src, targetWidth, targetHeight, pc, img, effectiveAspectRatio,
                   lumImg, sobelImg, prevWasBold>>
    /\ UNCHANGED <<sharedVars, cliVars>>

\* the trailing reset and the return of Convert
GenEnd ==
    /\ pc \in {"SobelLoop", "Loop"}
    /\ pos = lumImg.width * lumImg.height
    /\ out' = out \o GenEpilogue(a)
    /\ pc' = "done"
    /\ UNCHANGED <<a, src, targetWidth, targetHeight, img, effectiveAspectRatio,
                   lumImg, sobelImg, pos, prevColor, prevWasBold>>
    /\ UNCHANGED <<sharedVars, cliVars>>

Next ==
    \/ DownscaleImageStep
    \/ MapLuminosityStep
    \/ ApplySobelStep
    \/ GenBegin
    \/ SobelLoopStep
    \/ LoopStep
    \/ GenEnd

NextDown == DownscaleImageStep

Spec == Init /\ [][Next]_vars

SpecDown == InitDown /\ [][NextDown]_vars

SpecMap == InitMap /\ [][Next]_vars

SpecGrid == InitGrid /\ [][Next]_vars

SpecBold == InitBold /\ [][Next]_vars

SpecSobel == InitSobel /\ [][Next]_vars

SpecEdge == InitEdge /\ [][Next]_vars

----------------------------------------------------------------------------
(* asciiart/ascii_art.go: Convert calls on one shared converter            *)
(*                                                                         *)
(* This file's DownscaleImage opens with                                   *)
(*     if a.DownscaleFactor < 1 { a.DownscaleFactor = 1 }                  *)
(*     if a.DownscaleFactor == 1 && a.OutputAspectRatio == 1 { return }    *)
(* Each action below is one access of a call to a field of the converter;  *)
(* the goroutines interleave freely, nothing synchronises them.            *)

\* the values WithDownscaleFactor is given: below, at and above 1
SharedFactors == {<<1, 2>>, <<1, 1>>, <<2, 1>>}

\* the values WithAspectRatio is given
SharedRatios == {<<1, 1>>, <<2, 1>>}

\* New(WithDownscaleFactor(f), WithAspectRatio(r), WithAlwaysDownscaleToTarget(t))
SharedNew(f, r, t) ==
    [SharedNewDefault EXCEPT !.DownscaleFactor = f,
                             !.OutputAspectRatio = r,
                             !.AlwaysDownscaleToTarget = t]

\* the pipeline and command-line variables while only the shared converter acts
InitShared ==
    /\ ConvertEntry(Converter(WithRespectToAspectRatio, <<2, 1>>, TRUE, TRUE, TRUE, "4bit", 80000, 300),
                    Checker(1, 1, Black, Black), 1, 1)
    /\ CliUnused
    /\ \E f \in SharedFactors, r \in SharedRatios, t \in BOOLEAN :
        shared = SharedNew(f, r, t)
    /\ callPc = [c \in Calls |-> "idle"]

\* a goroutine calls Convert, which calls a.DownscaleImage first
CallConvert(c) ==
    /\ callPc[c] = "idle"
    /\ callPc' = [callPc EXCEPT ![c] = "L564"]
    /\ UNCHANGED <<shared, convertVars, cliVars>>

\* line 564: if a.DownscaleFactor < 1
ReadFactorBelowOne(c) ==
    /\ callPc[c] = "L564"
    /\ callPc' = [callPc EXCEPT ![c] =
                    IF shared.DownscaleFactor[1] < shared.DownscaleFactor[2]
                    THEN "L565" ELSE "L569"]
    /\ UNCHANGED <<shared, convertVars, cliVars>>

\* line 565: a.DownscaleFactor = 1
WriteFactor(c) ==
    /\ callPc[c] = "L565"
    /\ shared' = [shared EXCEPT !.DownscaleFactor = <<1, 1>>]
    /\ callPc' = [callPc EXCEPT ![c] = "L569"]
    /\ UNCHANGED <<convertVars, cliVars>>

\* line 569, left operand: a.DownscaleFactor == 1
ReadFactorIsOne(c) ==
    /\ callPc[c] = "L569"
    /\ callPc' = [callPc EXCEPT ![c] =
                    IF RatioEq1(shared.DownscaleFactor) THEN "L569r" ELSE "L578"]
    /\ UNCHANGED <<shared, convertVars, cliVars>>

\* line 569, right operand: a.OutputAspectRatio == 1
ReadRatioIsOne(c) ==
    /\ callPc[c] = "L569r"
    /\ callPc' = [callPc EXCEPT ![c] =
                    IF RatioEq1(shared.OutputAspectRatio) THEN "L570" ELSE "L578"]
    /\ UNCHANGED <<shared, convertVars, cliVars>>

\* line 570: return src, a.OutputAspectRatio; the rest of Convert reads the
\* converter only
ReturnSource(c) ==
    /\ callPc[c] = "L570"
    /\ callPc' = [callPc EXCEPT ![c] = "idle"]
    /\ UNCHANGED <<shared, convertVars, cliVars>>

\* lines 578-599 and the rest of Convert: reads of the converter only
ComputeAndRender(c) ==
    /\ callPc[c] = "L578"
    /\ callPc' = [callPc EXCEPT ![c] = "idle"]
    /\ UNCHANGED <<shared, convertVars, cliVars>>

\* the fields of the converter the next step of call c writes
WrittenNext(c) == IF callPc[c] = "L565" THEN {"DownscaleFactor"} ELSE {}

\* the fields of the converter the next step of call c reads
ReadNext(c) ==
    CASE callPc[c] \in {"L564", "L569"} -> {"DownscaleFactor"}
      [] callPc[c] \in {"L569r", "L570"} -> {"OutputAspectRatio"}
      [] callPc[c] = "L578" ->
            {"AlwaysDownscaleToTarget", "OutputAspectRatio"}
            \cup (IF shared.AlwaysDownscaleToTarget THEN {} ELSE {"DownscaleFactor"})
      [] OTHER -> {}

NextShared ==
    \E c \in Calls :
        \/ CallConvert(c)
        \/ ReadFactorBelowOne(c)
        \/ WriteFactor(c)
        \/ ReadFactorIsOne(c)
        \/ ReadRatioIsOne(c)
        \/ ReturnSource(c)
        \/ ComputeAndRender(c)

SpecShared == InitShared /\ [][NextShared]_vars

----------------------------------------------------------------------------
(* cmd/asciiart/main.go: the command-line program                          *)
(*                                                                         *)
(* A flag is <<name, value>>. An input is the kind of file its name leads  *)
(* to: "unreadable" (os.ReadFile fails), "undecodable" (image.Decode       *)
(* fails) or "image". Standard output holds one entry per fmt.Println,     *)
(* standard error one entry per message written to it.                     *)

\* the sequences over S of length at most n
SeqsUpTo(S, n) == UNION {[1 .. k -> S] : k \in 0 .. n}

\* the values given to the integer flags
IntFlagValues == {1, 3}

\* lines 83-86: the four integer flags of the target size
FlagTokens == {"w", "width", "h", "height"} \X IntFlagValues

InputKinds == {"unreadable", "undecodable", "image"}

\* the image every decodable input holds
CliImage == Checker(2, 2, Black, White)

\* lines 129-140: asciiart.New with the values of lines 32-37
CliConverter ==
    Converter(WithRespectToAspectRatio, <<2, 1>>, FALSE, FALSE, TRUE, "4bit", 80000, 300)

InitCli ==
    /\ ConvertEntry(CliConverter, CliImage, 100, 100)
    /\ SharedUnused
    /\ osArgs \in SeqsUpTo(FlagTokens, MaxFlags)
    /\ flagIdx = 0
    /\ cliWidth = 100
    /\ cliHeight = 100
    /\ \/ args \in SeqsUpTo(InputKinds, MaxInputs) \ {<<>>} /\ stdin = <<>>
       \/ args = <<>> /\ stdin \in SeqsUpTo(InputKinds, MaxInputs)
    /\ cliPc = "flag.Parse"
    /\ argIdx = 0
    /\ stdout = <<>>
    /\ stderr = <<>>

\* flag.Parse sets the variable each flag was registered with:
\*   flag.IntVar(&width, "w", ...)        line 83
\*   flag.IntVar(&width, "width", ...)    line 84
\*   flag.IntVar(&height, "h", ...)       line 85
\*   flag.IntVar(&width, "height", ...)   line 86
ParseFlag ==
    /\ cliPc = "flag.Parse"
    /\ flagIdx < Len(osArgs)
    /\ LET name == osArgs[flagIdx + 1][1]
           value == osArgs[flagIdx + 1][2]
       IN  /\ cliWidth' = IF name \in {"w", "width", "height"} THEN value ELSE cliWidth
           /\ cliHeight' = IF name = "h" THEN value ELSE cliHeight
    /\ flagIdx' = flagIdx + 1
    /\ UNCHANGED <<osArgs, args, stdin, cliPc, argIdx, stdout, stderr>>
    /\ UNCHANGED <<convertVars, sharedVars>>

\* flag.Parse returns; lines 99-142 build the converter and take flag.Args()
ParseDone ==
    /\ cliPc = "flag.Parse"
    /\ flagIdx = Len(osArgs)
    /\ cliPc' = "loop"
    /\ UNCHANGED <<osArgs, flagIdx, cliWidth, cliHeight, args, stdin, argIdx, stdout, stderr>>
    /\ UNCHANGED <<convertVars, sharedVars>>

\* lines 143-164: the names come from standard input when there is no argument
CliInputs == IF Len(args) = 0 THEN stdin ELSE args

\* convertAscii (lines 168-180) on an input of the given kind: the error
\* of os.ReadFile, the error of image.Decode, or Convert on the image, which
\* panics where DownscaleImage panics
convertAscii(kind, w, h) ==
    IF kind = "unreadable" THEN [panic |-> FALSE, err |-> "Error reading file"]
    ELSE IF kind = "undecodable" THEN [panic |-> FALSE, err |-> "Error converting ascii"]
    ELSE [panic |-> DownscaleImage(CliConverter, CliImage, w, h).panic, err |-> "nil"]

\* one iteration of the loop (lines 145-154, 156-164). An error is printed
\* to os.Stderr and the loop continues; a result is printed to os.Stdout; a
\* panic is not recovered: the runtime prints it to os.Stderr and the
\* process exits
ProcessInput ==
    /\ cliPc = "loop"
    /\ argIdx < Len(CliInputs)
    /\ LET res == convertAscii(CliInputs[argIdx + 1], cliWidth, cliHeight) IN
        /\ cliPc' = IF res.panic THEN "panic" ELSE "loop"
        /\ stderr' = IF res.panic THEN Append(stderr, [input |-> argIdx + 1, msg |-> "panic"])
                     ELSE IF res.err # "nil"
                     THEN Append(stderr, [input |-> argIdx + 1, msg |-> res.err])
                     ELSE stderr
        /\ stdout' = IF ~res.panic /\ res.err = "nil"
                     THEN Append(stdout, [input |-> argIdx + 1,
                                          targetWidth |-> cliWidth,
                                          targetHeight |-> cliHeight])
                     ELSE stdout
    /\ argIdx' = argIdx + 1
    /\ UNCHANGED <<osArgs, flagIdx, cliWidth, cliHeight, args, stdin>>
    /\ UNCHANGED <<convertVars, sharedVars>>

\* the loop is over and main returns
LoopEnd ==
    /\ cliPc = "loop"
    /\ argIdx = Len(CliInputs)
    /\ cliPc' = "exit"
    /\ UNCHANGED <<osArgs, flagIdx, cliWidth, cliHeight, args, stdin, argIdx, stdout, stderr>>
    /\ UNCHANGED <<convertVars, sharedVars>>

NextCli ==
    \/ ParseFlag
    \/ ParseDone
    \/ ProcessInput
    \/ LoopEnd

SpecCli == InitCli /\ [][NextCli]_vars

----------------------------------------------------------------------------
(* Downscaling: C1, C2, C3 (specification SpecDown) *)

\* DownscaleImage has returned an image
Downscaled == pc = "MapLuminosity"

RespectMode == a.DownscalingMode = WithRespectToAspectRatio

\* floor(n / ratio) and floor(n * ratio) for a positive n
FloorDivRatio(n, ratio) == (n * ratio[2]) \div ratio[1]
FloorMulRatio(n, ratio) == (n * ratio[1]) \div ratio[2]

\* C1, as stated: in respect-aspect-ratio mode the returned image is
\* targetWidth x floor(targetWidth / ratio) whenever ratio >= 1 (1 included)
\* and floor(targetHeight * ratio) x targetHeight whenever ratio < 1.
C1_AsStated ==
    (Downscaled /\ RespectMode) =>
        IF a.OutputAspectRatio[1] >= a.OutputAspectRatio[2]
        THEN /\ img.w = targetWidth
             /\ img.h = FloorDivRatio(targetWidth, a.OutputAspectRatio)
        ELSE /\ img.h = targetHeight
             /\ img.w = FloorMulRatio(targetHeight, a.OutputAspectRatio)

\* C1, amended: the same for ratio > 1 and ratio < 1; at ratio = 1 the
\* source image itself is returned, whatever the targets, with ratio 1.
C1_Amended ==
    (Downscaled /\ RespectMode) =>
        IF a.OutputAspectRatio[1] > a.OutputAspectRatio[2]
        THEN /\ img.w = targetWidth
             /\ img.h = FloorDivRatio(targetWidth, a.OutputAspectRatio)
        ELSE IF a.OutputAspectRatio[1] < a.OutputAspectRatio[2]
        THEN /\ img.h = targetHeight
             /\ img.w = FloorMulRatio(targetHeight, a.OutputAspectRatio)
        ELSE /\ img = src
             /\ effectiveAspectRatio = <<1, 1>>

\* ratio 2 and targetWidth 3 (targetHeight 4 ignored) gave a 3 x 1 image
C1_Witness ==
    /\ Downscaled /\ RespectMode
    /\ a.OutputAspectRatio = <<2, 1>>
    /\ targetWidth = 3 /\ targetHeight = 4
    /\ img.w = 3 /\ img.h = 1

\* C2, as stated: the returned image is never wider or taller than the
\* source, for every target and both modes.
C2_NeverUpscales ==
    Downscaled => (img.w <= src.w /\ img.h <= src.h)

\* C3, as stated: when the source is at least as large as the target in
\* both axes, the returned image is no wider and no taller than the source.
C3_NoUpscaleWhenSourceCoversTarget ==
    (Downscaled /\ src.w >= targetWidth /\ src.h >= targetHeight) =>
        (img.w <= src.w /\ img.h <= src.h)

----------------------------------------------------------------------------
(* Rendering: C4, C5, C6, C10 (specification Spec) *)

\* Convert has returned the text in out
Returned == pc = "done"

\* the rendering loops are running or have run
Rendering == pc \in {"SobelLoop", "Loop", "done"}

\* the coordinates of the k-th pixel of the grid, in rendering order
XOf(k) == k % lumImg.width
YOf(k) == k \div lumImg.width

GridPixels == 0 .. lumImg.width * lumImg.height - 1

\* the escape string the converter's colour mapper gives the k-th pixel
EscapeOf(k) == ANSIColorMapper(a, lumImg, XOf(k), YOf(k))[2]

\* the escape strings the colour mapper gives the pixels of the grid
MapperEscapes == {EscapeOf(k) : k \in GridPixels}

CheckerLum ==
    /\ lumImg.width = 2 /\ lumImg.height = 2
    /\ \/ lumImg.LumData = Arr(<<0, 255, 255, 0>>)
       \/ lumImg.LumData = Arr(<<255, 0, 0, 255>>)

\* ApplySobel has run on the checkerboard, edge detection on, the
\* magnitude-squared threshold 1, the Laplacian threshold NewDefault's 300
C6_Scenario ==
    /\ pc \in {"ASCIIGenWithSobel", "SobelLoop", "done"}
    /\ CheckerLum
    /\ a.UseSobel
    /\ a.SobelMagnitudeSqThresholdNormalized = 1
    /\ a.SobelLaplacianThresholdNormalized = 300

\* the renderer's edge test on the k-th pixel
EdgeAt(k) == IsEdge(a, effectiveAspectRatio, sobelImg, lumImg.width, XOf(k), YOf(k))

\* C6, as stated: in the scenario all four pixels pass the edge test.
C6_AllFourEdges ==
    C6_Scenario => \A k \in GridPixels : EdgeAt(k)

\* C6, amended: in the scenario all four pixels are computed by the
\* replicate-border path and pass the magnitude test with magnitude squared
\* 2 * 510^2, yet none passes the edge test: |Laplacian| is at least 510 at
\* each of them, above the default threshold 300.  Nothing is made bold.
C6_Amended ==
    C6_Scenario =>
        /\ \A k \in GridPixels :
            /\ <<XOf(k), YOf(k)>> \in SafePixels(lumImg.width, lumImg.height)
            /\ sobelImg.G_Mag2[k] = 520200
            /\ sobelImg.G_Mag2[k] >= AdjustedGMag2Threshold(a, effectiveAspectRatio)
            /\ Abs(sobelImg.G_Laplacian[k]) >= 510
            /\ ~EdgeAt(k)
        /\ ~prevWasBold
        /\ \A i \in DOMAIN out : out[i] # BoldOnStr

\* the scenario rendered to the end, the other settings NewDefault's
C6_Witness ==
    /\ C6_Scenario
    /\ Returned
    /\ a.UseColor /\ a.SobelOutlineIsBold /\ a.ANSIColorMapper = "4bit"
    /\ pos = 4

\* a chunk of out that selects a colour
IsColorEscape(c) ==
    /\ Len(c) >= 2
    /\ c[1] = ESC
    /\ c \notin {ResetStr, BoldOnStr, BoldOffStr}

ColorEscapeIdx == {i \in DOMAIN out : IsColorEscape(out[i])}

\* the escape string in force at the end of out (<<>> when there is none)
ColorInForce ==
    IF ColorEscapeIdx = {} THEN <<>>
    ELSE out[CHOOSE i \in ColorEscapeIdx : \A j \in ColorEscapeIdx : j <= i]

\* the renderer writes colour escapes
WritesColor == a.UseSobel \/ a.UseColor

\* the mapper named m, in place of the converter's
MapperResult(m, k) == ANSIColorMapper([a EXCEPT !.ANSIColorMapper = m], lumImg, XOf(k), YOf(k))

\* C10: under each built-in mapper two pixels of the grid with the same code
\* have the same escape string, and whenever a glyph has just been written
\* the colour escape in force is that pixel's own escape string, whether
\* it was written or suppressed.  The grid does not change while the
\* renderer runs, so its pixels are compared as the renderer starts.
C10_CodeStability ==
    (Rendering /\ WritesColor) =>
        /\ pos = 0 =>
              \A m \in ColorMappers :
                  LET results == {MapperResult(m, k) : k \in GridPixels}
                  IN  \A r1 \in results, r2 \in results : r1[1] = r2[1] => r1[2] = r2[2]
        /\ pos >= 1 => ColorInForce = EscapeOf(pos - 1)

\* two pixels of different luminosity got the same code: the second glyph was written with its escape suppressed
C10_Witness ==
    /\ Rendering /\ WritesColor
    /\ pos = 2
    /\ lumImg.LumData[0] # lumImg.LumData[1]
    /\ Cardinality(ColorEscapeIdx) = 1
    /\ ColorInForce = EscapeOf(1)

----------------------------------------------------------------------------
(* Colour mappers: C7, C8, C9 (specification SpecMap) *)

\* the renderer has called the colour mapper on the pixel of a 1 x 1 grid
\* and written its escape string
Mapped ==
    /\ Rendering
    /\ lumImg.width = 1 /\ lumImg.height = 1
    /\ pos = 1
    /\ a.UseColor

\* that pixel, its 8-bit channels and its luminosity
ThePixel == At(lumImg.image, 0, 0)
TheLum == LuminosityAt(lumImg, 0, 0)

Opaque == ThePixel[4] = 255

\* the code the mapper returned and the string the renderer wrote for it
ReturnedCode == prevColor
ReturnedEscape == out[IF a.UseSobel THEN 2 ELSE 1]

SqDist(c, rgb) ==
    (c[1] - rgb[1]) * (c[1] - rgb[1]) + (c[2] - rgb[2]) * (c[2] - rgb[2])
    + (c[3] - rgb[3]) * (c[3] - rgb[3])

\* the indices of the levels of a step table nearest to v
NearestIdx(steps, v) ==
    {i \in DOMAIN steps : \A j \in DOMAIN steps : Abs(steps[i] - v) <= Abs(steps[j] - v)}

\* the indices of the grey ramp entries nearest to the three channels
NearestGrey(greys, rgb) ==
    {i \in DOMAIN greys :
        \A j \in DOMAIN greys :
            SqDist(<<greys[i], greys[i], greys[i]>>, rgb)
                <= SqDist(<<greys[j], greys[j], greys[j]>>, rgb)}

\* C7, as stated: the 8-bit mapper returns cube code 16 + 36*r6 + 6*g6 + b6,
\* r6, g6, b6 the step-table levels nearest to the channels, when that cube
\* colour is at least as close to the source channels (squared distance) as
\* the nearest grey-ramp entry, and grey code 232 + grey24 otherwise.
C7_NearestOfCubeAndGrey ==
    (Mapped /\ Opaque /\ a.ANSIColorMapper = "8bit") =>
        LET rgb == <<ThePixel[1], ThePixel[2], ThePixel[3]>>
            rSteps == populateSteps(6, default8BitOpts.rStep)
            gSteps == populateSteps(6, default8BitOpts.gStep)
            bSteps == populateSteps(6, default8BitOpts.bStep)
            greySteps == populateSteps(24, default8BitOpts.greyStep)
            r6 == CHOOSE i \in NearestIdx(rSteps, rgb[1]) : TRUE
            g6 == CHOOSE i \in NearestIdx(gSteps, rgb[2]) : TRUE
            b6 == CHOOSE i \in NearestIdx(bSteps, rgb[3]) : TRUE
            grey24 == CHOOSE i \in NearestGrey(greySteps, rgb) : TRUE
            cubeDist == SqDist(<<rSteps[r6], gSteps[g6], bSteps[b6]>>, rgb)
            greyDist == SqDist(<<greySteps[grey24], greySteps[grey24], greySteps[grey24]>>, rgb)
        IN  IF cubeDist <= greyDist
            THEN \E i \in NearestIdx(rSteps, rgb[1]), j \in NearestIdx(gSteps, rgb[2]),
                    k \in NearestIdx(bSteps, rgb[3]) :
                        ReturnedCode = 16 + 36 * i + 6 * j + k
            ELSE \E i \in NearestGrey(greySteps, rgb) : ReturnedCode = 232 + i

\* C8: the default 3-bit mapper returns 30 when luminosity <= BlackLumUpper,
\* else 37 when luminosity >= WhiteLumLower, else 30 + 1, 2, 4 for each of the
\* rewarded r, g, b at or above its threshold; the string is ESC[<code>m;
\* the opaque pixel (255,0,0) gets 31 and ESC[31m.
C8_ThreeBitCode ==
    (Mapped /\ a.ANSIColorMapper = "3bit") =>
        LET rew == Rewarded(default3BitOpts, channelSplit(ThePixel))
            expected ==
                IF TheLum <= default3BitOpts.BlackLumUpper THEN 30
                ELSE IF TheLum >= default3BitOpts.WhiteLumLower THEN 37
                ELSE 30 + (IF rew[1] >= default3BitOpts.ColorThresholds[0] THEN 1 ELSE 0)
                        + (IF rew[2] >= default3BitOpts.ColorThresholds[1] THEN 2 ELSE 0)
                        + (IF rew[3] >= default3BitOpts.ColorThresholds[2] THEN 4 ELSE 0)
        IN  /\ ReturnedCode = expected
            /\ ReturnedCode \in 30 .. 37
            /\ ReturnedEscape = <<ESC, "[", "3", DigitChar(ReturnedCode - 30), "m">>
            /\ ThePixel = <<255, 0, 0, 255>> =>
                  (ReturnedCode = 31 /\ ReturnedEscape = <<ESC, "[", "3", "1", "m">>)

\* the opaque pixel (255,0,0) mapped to 31 and ESC[31m by the 3-bit mapper
C8_Witness ==
    /\ Mapped /\ a.ANSIColorMapper = "3bit"
    /\ ThePixel = <<255, 0, 0, 255>>
    /\ ReturnedCode = 31
    /\ ReturnedEscape = <<ESC, "[", "3", "1", "m">>

\* C9: the 24-bit mapper returns, for an opaque pixel (r, g, b), the code
\* r * 2^16 + g * 2^8 + b and the string ESC[38;2;r;g;bm; its code is in
\* 0 .. 2^24 - 1 for every pixel; (10,20,30) gets 660510 and
\* ESC[38;2;10;20;30m.
C9_TwentyFourBitCode ==
    (Mapped /\ a.ANSIColorMapper = "24bit") =>
        /\ ReturnedCode \in 0 .. 16777215
        /\ Opaque =>
            /\ ReturnedCode = ThePixel[1] * 65536 + ThePixel[2] * 256 + ThePixel[3]
            /\ ReturnedEscape = <<ESC, "[", "3", "8", ";", "2", ";">> \o DecNat(ThePixel[1])
                                  \o <<";">> \o DecNat(ThePixel[2])
                                  \o <<";">> \o DecNat(ThePixel[3]) \o <<"m">>
        /\ ThePixel = <<10, 20, 30, 255>> =>
            /\ ReturnedCode = 660510
            /\ ReturnedEscape = <<ESC, "[", "3", "8", ";", "2", ";", "1", "0", ";",
                                  "2", "0", ";", "3", "0", "m">>

\* the opaque pixel (10,20,30) mapped by the 24-bit mapper
C9_Witness ==
    /\ Mapped /\ a.ANSIColorMapper = "24bit"
    /\ ThePixel = <<10, 20, 30, 255>>
    /\ ReturnedCode = 660510
    /\ Len(ReturnedEscape) = 16

----------------------------------------------------------------------------
(* Downscaling on every target and mode value: C12, C13 (specification SpecGrid) *)

\* DownscaleImage has been called and has returned or panicked
DownscaleCalled == pc # "Convert"

\* the condition of the identity shortcut
IdentityCase == RespectMode /\ a.OutputAspectRatio[1] = a.OutputAspectRatio[2]

\* C12: with OutputAspectRatio = 1 in respect mode DownscaleImage returns the
\* source image itself and ratio 1 for every targetWidth and targetHeight,
\* zero included: no panic, no resampling.
C12_IdentityShortcut ==
    (DownscaleCalled /\ IdentityCase) =>
        /\ pc # "panic"
        /\ img = src
        /\ effectiveAspectRatio = <<1, 1>>

\* a 2 x 3 source returned as it is for targets 0 x 0
C12_Witness ==
    /\ pc = "MapLuminosity" /\ IdentityCase
    /\ targetWidth = 0 /\ targetHeight = 0
    /\ src.w = 2 /\ src.h = 3
    /\ img = src

\* the dimensions the switch computes, for a recognised mode
ComputedWidth ==
    IF ~RespectMode THEN targetWidth
    ELSE IF a.OutputAspectRatio[1] >= a.OutputAspectRatio[2] THEN targetWidth
    ELSE FloorMulRatio(targetHeight, a.OutputAspectRatio)

ComputedHeight ==
    IF ~RespectMode THEN targetHeight
    ELSE IF a.OutputAspectRatio[1] >= a.OutputAspectRatio[2]
         THEN FloorDivRatio(targetWidth, a.OutputAspectRatio)
    ELSE targetHeight

UnknownMode == a.DownscalingMode \notin {WithRespectToAspectRatio, IgnoreAspectRatio}

\* the configurations C13 is about
FatalCase == ~IdentityCase /\ (UnknownMode \/ ComputedWidth = 0 \/ ComputedHeight = 0)

\* C13: when the computed width or height is 0, or the mode is not
\* recognised, DownscaleImage panics: it returns no image (img is still the
\* argument), nothing downstream runs and Convert returns no text.  In every
\* other case it does not panic and the image has positive dimensions.
C13_FatalConfiguration ==
    DownscaleCalled =>
        /\ FatalCase =>
            /\ pc = "panic"
            /\ img = src
            /\ lumImg.LumData = <<>>
            /\ out = <<>>
        /\ ~FatalCase => (pc # "panic" /\ img.w > 0 /\ img.h > 0)

\* ratio 2 and targetWidth 1 in respect mode: height 0, panic
C13_Witness ==
    /\ pc = "panic"
    /\ RespectMode /\ a.OutputAspectRatio = <<2, 1>>
    /\ targetWidth = 1 /\ targetHeight = 4
    /\ ComputedWidth = 1 /\ ComputedHeight = 0

----------------------------------------------------------------------------
(* Luminosity and the glyph ramp: C14, C15 (specification SpecMap) *)

\* MapLuminosity has returned lumImg
LuminosityMapped == pc \notin {"Convert", "panic", "MapLuminosity"}

\* C14: every luminosity MapLuminosity stores, for 8-bit channels r, g, b, a,
\* is in 0 .. 255.
C14_LuminosityRange ==
    LuminosityMapped =>
        \A i \in DOMAIN lumImg.LumData :
            /\ \A c \in 1 .. 4 : lumImg.image.px[i][c] \in 0 .. 255
            /\ lumImg.LumData[i] \in 0 .. 255

\* the opaque white pixel got the largest luminosity, 255
C14_Witness ==
    /\ LuminosityMapped
    /\ ThePixel = <<255, 255, 255, 255>>
    /\ TheLum = 255

\* the glyph the renderer wrote for the pixel of a 1 x 1 grid (which has no
\* edge, so the glyph follows the colour escape)
WrittenGlyph == out[IF a.UseSobel THEN 3 ELSE 2]

RampLength == Cardinality(DOMAIN charRamp)

\* C15: for every luminosity in 0 .. 255 the ramp index is in
\* 0 .. rampLength - 1, luminosity 0 gives the last entry and 255 the first;
\* the glyph written for a pixel is the ramp entry at that index.
C15_RampIndexInRange ==
    /\ \A l \in 0 .. 255 : LuminenceCharIdx(l) \in 0 .. RampLength - 1
    /\ LuminenceCharIdx(0) = RampLength - 1
    /\ LuminenceCharIdx(255) = 0
    /\ Mapped =>
          /\ LuminenceCharIdx(TheLum) \in 0 .. RampLength - 1
          /\ WrittenGlyph = <<charRamp[LuminenceCharIdx(TheLum)]>>
          /\ TheLum = 0 => WrittenGlyph = <<" ">>
          /\ TheLum = 255 => WrittenGlyph = <<"$">>

\* a pixel of luminosity 0 was written as the last ramp entry, the blank
C15_Witness ==
    /\ Mapped
    /\ TheLum = 0
    /\ LuminenceCharIdx(TheLum) = 69
    /\ WrittenGlyph = <<" ">>

----------------------------------------------------------------------------
(* Gradients and edge selection: C16, C17, C20 (specification SpecGrid) *)

\* ApplySobel has returned sobelImg
SobelReady == a.UseSobel /\ pc \in {"ASCIIGenWithSobel", "SobelLoop", "done"}

\* the kernel sums at the k-th pixel; on an interior pixel the replicate
\* border reads are the plain reads of applySobelCentralPixel
KernelGx(k) == SafeGx(lumImg, XOf(k), YOf(k))
KernelGy(k) == SafeGy(lumImg, XOf(k), YOf(k))

\* C16: the gradient stored for a pixel is +Inf when gx = 0 and gy > 0,
\* -Inf when gx = 0 and gy <= 0, and the quotient gy / gx otherwise; it is
\* never NaN (no quotient with a zero denominator).
C16_GradientRatio ==
    SobelReady =>
        \A k \in GridPixels :
            LET g == sobelImg.G_Grad[k]
                gx == KernelGx(k)
                gy == KernelGy(k)
            IN  /\ (gx = 0 /\ gy > 0) => g.inf = 1
                /\ (gx = 0 /\ gy <= 0) => g.inf = -1
                /\ gx # 0 => (g.inf = 0 /\ g.den # 0 /\ g.num * gx = gy * g.den)
                /\ ~(g.inf = 0 /\ g.den = 0)

\* a grid holding a pixel with gx = 0, gy > 0 (+Inf), one with gx = gy = 0
\* (-Inf) and one with a finite ratio
C16_Witness ==
    /\ SobelReady
    /\ \E k \in GridPixels :
          KernelGx(k) = 0 /\ KernelGy(k) > 0 /\ sobelImg.G_Grad[k].inf = 1
    /\ \E k \in GridPixels :
          KernelGx(k) = 0 /\ KernelGy(k) = 0 /\ sobelImg.G_Grad[k].inf = -1
    /\ \E k \in GridPixels :
          KernelGx(k) # 0 /\ KernelGy(k) # 0 /\ sobelImg.G_Grad[k].inf = 0

\* magnitude-squared thresholds to compare
MagThresholdSamples == {0, 1, 80000, 260000, 1000000, 2000000}

\* the pixels the edge test accepts with magnitude-squared threshold t
EdgesWith(t) ==
    {k \in GridPixels :
        IsEdge([a EXCEPT !.SobelMagnitudeSqThresholdNormalized = t],
               effectiveAspectRatio, sobelImg, lumImg.width, XOf(k), YOf(k))}

\* C17: for a fixed grid, effective ratio and Laplacian threshold, the edge
\* set with a larger magnitude-squared threshold is a subset of the edge set
\* with a smaller one.
C17_MonotonicInThreshold ==
    SobelReady =>
        \A t1 \in MagThresholdSamples, t2 \in MagThresholdSamples :
            t1 <= t2 => EdgesWith(t2) \subseteq EdgesWith(t1)

\* a grid with edges at threshold 1000000 and none left at 2000000
C17_Witness ==
    /\ SobelReady
    /\ EdgesWith(1000000) # {}
    /\ EdgesWith(1000000) = EdgesWith(0)
    /\ EdgesWith(2000000) = {}

\* the effective ratio the downscaler returned, from the image it returned
ReturnedRatio == IF IdentityCase THEN <<1, 1>> ELSE <<img.w, img.h>>

\* the selection rule of C20 on the k-th pixel
SelectedAsEdge(k) ==
    /\ KernelGx(k) * KernelGx(k) + KernelGy(k) * KernelGy(k)
          >= (a.SobelMagnitudeSqThresholdNormalized * ReturnedRatio[1] * ReturnedRatio[1])
                \div (ReturnedRatio[2] * ReturnedRatio[2])
    /\ Abs(sobelImg.G_Laplacian[k]) <= a.SobelLaplacianThresholdNormalized

\* the glyph of the pixel the loop has just rendered
LastGlyph == IF out[Len(out)] = NewLine THEN out[Len(out) - 1] ELSE out[Len(out)]

\* C20: with edge detection on, the glyph just written is the edge mapper's
\* iff the pixel's squared magnitude >= int(threshold * effectiveRatio^2) and
\* |Laplacian| <= the Laplacian threshold, and the luminosity mapper's
\* otherwise (bold tells the two apart); the ratio is the one the downscaler
\* returned.
C20_EdgeSelection ==
    (a.UseSobel /\ pc = "SobelLoop" /\ pos >= 1) =>
        LET k == pos - 1 IN
        /\ effectiveAspectRatio[1] * ReturnedRatio[2] = ReturnedRatio[1] * effectiveAspectRatio[2]
        /\ LastGlyph =
              IF SelectedAsEdge(k)
              THEN <<DefaultEdgeMapper(ReturnedRatio, sobelImg, lumImg.width, XOf(k), YOf(k))>>
              ELSE <<DefaultLuminenceMapper(lumImg, XOf(k), YOf(k))>>
        /\ a.SobelOutlineIsBold => (prevWasBold <=> SelectedAsEdge(k))

\* an edge pixel rendered bold by the edge mapper where the effective ratio
\* is not the requested one
C20_Witness ==
    /\ a.UseSobel /\ pc = "SobelLoop" /\ pos >= 1
    /\ SelectedAsEdge(pos - 1)
    /\ prevWasBold
    /\ LastGlyph = <<DefaultEdgeMapper(ReturnedRatio, sobelImg, lumImg.width,
                                       XOf(pos - 1), YOf(pos - 1))>>
    /\ effectiveAspectRatio[1] * a.OutputAspectRatio[2]
          # effectiveAspectRatio[2] * a.OutputAspectRatio[1]

----------------------------------------------------------------------------
(* The shared converter: C11 (specification SpecShared) *)

\* two calls are about to access one field of the converter, one of them
\* writing it, with nothing ordering them
DataRace ==
    \E p \in Calls, q \in Calls :
        /\ p # q
        /\ WrittenNext(p) \cap (ReadNext(q) \cup WrittenNext(q)) # {}

\* C11: Convert, and DownscaleImage inside it, never writes a field of the
\* shared converter: no step of any call changes the converter, so after any
\* sequence of calls every field has the value construction gave it, and no
\* call writes a field another call is reading or writing.
C11_ConverterNeverWritten == [][shared' = shared /\ ~DataRace]_vars

----------------------------------------------------------------------------
(* The command line: C18, C19 (specification SpecCli) *)

\* the value of the last flag of osArgs with a name in names, or dflt
LastFlagValue(names, dflt) ==
    LET idx == {i \in 1 .. Len(osArgs) : osArgs[i][1] \in names} IN
    IF idx = {} THEN dflt
    ELSE osArgs[CHOOSE i \in idx : \A j \in idx : j <= i][2]

\* the inputs (by position) an output stream has an entry for, in order
InputsOf(stream) == [i \in 1 .. Len(stream) |-> stream[i].input]

Increasing(s) == \A i \in 1 .. Len(s), j \in 1 .. Len(s) : i < j => s[i] < s[j]

\* C19: once the flags are parsed, the target height is the value of the
\* last -h or -height flag and the target width the value of the last -w or
\* -width flag (100 each when no such flag is given): -height N sets the
\* height and leaves the width alone; every conversion is given these values.
C19_HeightAliasSetsHeight ==
    cliPc # "flag.Parse" =>
        /\ cliHeight = LastFlagValue({"h", "height"}, 100)
        /\ cliWidth = LastFlagValue({"w", "width"}, 100)
        /\ \A i \in 1 .. Len(stdout) :
            /\ stdout[i].targetHeight = LastFlagValue({"h", "height"}, 100)
            /\ stdout[i].targetWidth = LastFlagValue({"w", "width"}, 100)

\* C18: the loop takes the inputs in order and never stops early: the
\* inputs taken so far are each answered, in order, a failure by one message
\* on standard error and a success by one text on standard output, the
\* process does not abort, and when main returns every input was taken.
C18_EveryInputProcessed ==
    /\ cliPc # "panic"
    /\ Increasing(InputsOf(stdout)) /\ Increasing(InputsOf(stderr))
    /\ \A i \in 1 .. argIdx :
        IF CliInputs[i] = "image"
        THEN (\E k \in 1 .. Len(stdout) : stdout[k].input = i)
             /\ ~(\E k \in 1 .. Len(stderr) : stderr[k].input = i)
        ELSE (\E k \in 1 .. Len(stderr) : stderr[k].input = i)
             /\ ~(\E k \in 1 .. Len(stdout) : stdout[k].input = i)
    /\ Len(stdout) + Len(stderr) = argIdx
    /\ cliPc = "exit" => argIdx = Len(CliInputs)

----------------------------------------------------------------------------
(* The renderer's carried state: C21, C22 (specification SpecBold) *)

\* the chunks of out that are glyphs
GlyphIdx == {i \in DOMAIN out : Len(out[i]) = 1 /\ out[i] # NewLine}

\* the chunks of out that switch bold on or off
BoldIdx == {i \in DOMAIN out : out[i] \in {BoldOnStr, BoldOffStr}}

\* the last index of a non-empty set of indices
Last(S) == CHOOSE i \in S : \A j \in S : j <= i

\* the chunks written for the pixel just rendered, up to its glyph
LastPixelChunks ==
    LET g == Last(GlyphIdx)
        before == {i \in GlyphIdx : i < g}
    IN  {i \in DOMAIN out : i <= g /\ (before = {} \/ i > Last(before))}

\* the bold state the terminal is in at the end of out
BoldInForce == BoldIdx # {} /\ out[Last(BoldIdx)] = BoldOnStr

\* the pixel before the one just rendered, in row-major order, was an edge
PrevEdge == pos >= 2 /\ EdgeAt(pos - 2)

\* C21: on the edge path the bold state starts off and is carried across
\* rows. With SobelOutlineIsBold, when a glyph has just been written bold is
\* on iff the pixel is an edge, ESC[1m was written for the pixel iff it is
\* an edge and its row-major predecessor is not (or there is none), ESC[22m
\* iff it is no edge and its predecessor is one, so the two alternate,
\* ESC[1m first. Without the flag neither is ever written.
C21_BoldOnTransitionsOnly ==
    (a.UseSobel /\ pc \in {"SobelLoop", "done"}) =>
        /\ pos = 0 => (~prevWasBold /\ BoldIdx = {})
        /\ ~a.SobelOutlineIsBold => (~prevWasBold /\ BoldIdx = {})
        /\ (a.SobelOutlineIsBold /\ pos >= 1) =>
            /\ prevWasBold <=> EdgeAt(pos - 1)
            /\ BoldInForce <=> EdgeAt(pos - 1)
            /\ (\E i \in LastPixelChunks : out[i] = BoldOnStr)
                  <=> (EdgeAt(pos - 1) /\ ~PrevEdge)
            /\ (\E i \in LastPixelChunks : out[i] = BoldOffStr)
                  <=> (~EdgeAt(pos - 1) /\ PrevEdge)
        /\ \A i \in BoldIdx :
              LET earlier == {j \in BoldIdx : j < i} IN
              IF earlier = {} THEN out[i] = BoldOnStr
              ELSE out[Last(earlier)] # out[i]

\* a grid rendered to the end whose bold was switched on, off and on again,
\* and carried from the last pixel of a row to the first of the next
C21_Witness ==
    /\ a.UseSobel /\ a.SobelOutlineIsBold /\ pc = "done"
    /\ Cardinality(BoldIdx) >= 3
    /\ \E k \in GridPixels :
          k >= 1 /\ XOf(k) = 0 /\ EdgeAt(k) /\ EdgeAt(k - 1)

\* the code the converter's colour mapper gives the k-th pixel
CodeOf(k) == ANSIColorMapper(a, lumImg, XOf(k), YOf(k))[1]

\* the rendered pixels whose code differs from their row-major predecessor's
CodeChanges == {k \in 1 .. pos - 1 : CodeOf(k) # CodeOf(k - 1)}

\* C22: with colour enabled and a built-in mapper, in either renderer, a
\* colour escape is written for a pixel iff it is the first pixel of the
\* grid or its code differs from the code of its row-major predecessor (the
\* previous code is carried across rows); the escape is the pixel's own and
\* stands before its glyph; the escapes written number 1 plus the adjacent
\* pairs with different codes.
C22_EscapeOnCodeChangeOnly ==
    (Rendering /\ a.UseColor) =>
        /\ pos = 0 => ColorEscapeIdx = {}
        /\ pos >= 1 =>
            /\ (\E i \in LastPixelChunks : IsColorEscape(out[i]))
                  <=> (pos = 1 \/ CodeOf(pos - 1) # CodeOf(pos - 2))
            /\ \A i \in LastPixelChunks :
                  IsColorEscape(out[i]) => (out[i] = EscapeOf(pos - 1) /\ i < Last(GlyphIdx))
            /\ Cardinality(ColorEscapeIdx) = 1 + Cardinality(CodeChanges)
            /\ prevColor = CodeOf(pos - 1)

\* a grid of even width rendered to the end without edge detection: codes
\* change inside the rows and the first pixel of the second row, with the
\* code of the pixel before it, gets no escape
C22_Witness ==
    /\ Returned /\ a.UseColor /\ ~a.UseSobel
    /\ lumImg.width = 2 /\ lumImg.height = 2
    /\ CodeOf(1) # CodeOf(0) /\ CodeOf(2) = CodeOf(1) /\ CodeOf(3) # CodeOf(2)
    /\ Cardinality(ColorEscapeIdx) = 3

----------------------------------------------------------------------------
(* The 8-bit step tables: C24 (specification SpecMap) *)

\* the 8-bit mapper has built its tables and mapped the pixel
EightBitMapped == Rendering /\ WritesColor /\ a.ANSIColorMapper = "8bit" /\ pos >= 1

\* the table the claim describes for a rule and a length
StatedSteps(n, rule) ==
    [i \in 0 .. n - 1 |->
        IF i = 0 THEN rule[0]
        ELSE IF i = 1 THEN rule[1]
        ELSE rule[1] + (i - 1) * rule[2]]

\* C24, as stated: a step rule [lowest, second, step] expands to the table
\* with entry 0 = lowest, entry 1 = second and entry i = second + (i-1)*step
\* for i >= 2: the channel rule {0, 95, 40} gives [0, 95, 135, 175, 215, 255]
\* and the grey rule {8, 18, 10} gives 8, 18, 28, ..., 238.
C24_StepTables ==
    EightBitMapped =>
        /\ populateSteps(6, default8BitOpts.rStep) = StatedSteps(6, default8BitOpts.rStep)
        /\ populateSteps(6, default8BitOpts.rStep) = Arr(<<0, 95, 135, 175, 215, 255>>)
        /\ populateSteps(6, default8BitOpts.gStep) = Arr(<<0, 95, 135, 175, 215, 255>>)
        /\ populateSteps(6, default8BitOpts.bStep) = Arr(<<0, 95, 135, 175, 215, 255>>)
        /\ populateSteps(24, default8BitOpts.greyStep) = StatedSteps(24, default8BitOpts.greyStep)
        /\ populateSteps(24, default8BitOpts.greyStep)[23] = 238

----------------------------------------------------------------------------
(* The ramp index formula: C23 (specification SpecMap) *)

\* floor(lastIndex - L/255 * (rampLength - 1)), the difference being >= 0
StatedRampIndex(l) ==
    ((RampLength - 1) * 255 - l * (RampLength - 1)) \div 255

\* C23, as stated: for every luminosity L in 0 .. 255 the ramp index is
\* floor(lastIndex - L/255 * (rampLength - 1)) with lastIndex =
\* rampLength - 1, and the glyph written for a pixel is the entry there.
C23_RampIndexFormula ==
    Mapped =>
        /\ LuminenceCharIdx(TheLum) = StatedRampIndex(TheLum)
        /\ WrittenGlyph = <<charRamp[StatedRampIndex(TheLum)]>>
        /\ \A l \in 0 .. 255 : LuminenceCharIdx(l) = StatedRampIndex(l)

----------------------------------------------------------------------------
(* ApplySobel on whole grids: C25, C26, C30 (specification SpecSobel) *)

\* the coordinates of the grid
GridCoords == {<<x, y>> : x \in 0 .. lumImg.width - 1, y \in 0 .. lumImg.height - 1}

\* the offsets of the 3 x 3 neighbourhood
Offsets == {<<dx, dy>> : dx \in -1 .. 1, dy \in -1 .. 1}

\* the nearest coordinate inside 0 .. n - 1
Nearest(v, n) == Max(0, Min(v, n - 1))

\* C25: for every grid of width >= 1 and height >= 1 the three loops of
\* ApplySobel hand every pixel of the grid, and nothing else, to one of the
\* two pixel functions, so gradient, squared magnitude and Laplacian of
\* every pixel are written and no write falls outside the arrays; every
\* luminosity read of the border function is at the coordinates clamped to
\* the nearest valid ones, every read of the central function is inside the
\* grid; the squared magnitude stored is gx^2 + gy^2 >= 0.
C25_ReplicateBorder ==
    SobelReady =>
        /\ SafePixels(lumImg.width, lumImg.height)
              \cup CentralPixels(lumImg.width, lumImg.height) = GridCoords
        /\ DOMAIN lumImg.LumData = GridPixels
        /\ DOMAIN sobelImg.G_Grad = GridPixels
        /\ DOMAIN sobelImg.G_Mag2 = GridPixels
        /\ DOMAIN sobelImg.G_Laplacian = GridPixels
        /\ \A c \in SafePixels(lumImg.width, lumImg.height), d \in Offsets :
              /\ SafeIndex(lumImg, c[1] + d[1], c[2] + d[2]) \in GridPixels
              /\ SafeIndex(lumImg, c[1] + d[1], c[2] + d[2])
                    = Nearest(c[1] + d[1], lumImg.width)
                      + lumImg.width * Nearest(c[2] + d[2], lumImg.height)
        /\ \A c \in CentralPixels(lumImg.width, lumImg.height), d \in Offsets :
              <<c[1] + d[1], c[2] + d[2]>> \in GridCoords
        /\ \A k \in GridPixels :
              /\ sobelImg.G_Mag2[k] = KernelGx(k) * KernelGx(k) + KernelGy(k) * KernelGy(k)
              /\ sobelImg.G_Mag2[k] >= 0
              /\ sobelImg.G_Grad[k] = computeGrad(KernelGx(k), KernelGy(k))
              /\ sobelImg.G_Laplacian[k] = SafeLaplacian(lumImg, XOf(k), YOf(k))

\* a grid one pixel wide and at least three tall, with no interior, whose
\* top pixel got a non-zero magnitude from the replicated border
C25_Witness ==
    /\ SobelReady
    /\ lumImg.width = 1 /\ lumImg.height >= 3
    /\ CentralPixels(lumImg.width, lumImg.height) = {}
    /\ sobelImg.G_Mag2[0] > 0
    /\ sobelImg.G_Grad[0].inf # 0

\* the luminosity at the k-th pixel's neighbour, border replicated
Neighbour(k, dx, dy) == SafeLuminosityAt(lumImg, XOf(k) + dx, YOf(k) + dy)

\* C26, as stated: in the Laplacian stored for a pixel the two vertical
\* neighbours carry the weight height/width of the grid, as a ratio (0.5 on
\* a grid twice as wide as tall), and the two horizontal neighbours the
\* weight 1; the centre carries the code's -2 * (2 + weight). Both sides are
\* multiplied by the width to stay in the integers.
C26_VerticalWeightIsInverseRatio ==
    SobelReady =>
        \A k \in GridPixels :
            sobelImg.G_Laplacian[k] * lumImg.width =
                lumImg.height * Neighbour(k, 0, -1)
                + lumImg.width * Neighbour(k, -1, 0)
                - 2 * (2 * lumImg.width + lumImg.height) * Neighbour(k, 0, 0)
                + lumImg.width * Neighbour(k, 1, 0)
                + lumImg.height * Neighbour(k, 0, 1)

\* the grid has one luminosity everywhere
FlatField == \A k \in GridPixels : lumImg.LumData[k] = lumImg.LumData[0]

\* C30, as stated: on a grid of one luminosity c ApplySobel stores Laplacian
\* 0 and squared magnitude 0 at every pixel, interior and border alike.
C30_FlatFieldLaplacianZero ==
    (SobelReady /\ FlatField) =>
        \A k \in GridPixels :
            /\ sobelImg.G_Laplacian[k] = 0
            /\ sobelImg.G_Mag2[k] = 0

----------------------------------------------------------------------------
(* The edge-glyph lookup: C29 (specification SpecEdge) *)

\* ApplySobel has run and the edge renderer has started
EdgeRendererRan ==
    /\ a.UseSobel
    /\ pc \in {"SobelLoop", "done", "panic"}
    /\ lumImg.width >= 1
    /\ DOMAIN sobelImg.G_Grad = GridPixels

LastStop == Cardinality(DOMAIN edgeGlyphStops) - 1

\* C29, as stated: for every effective ratio the downscaler returns and
\* every gradient of the grid, +Inf and -Inf included, the build loop never
\* exceeds the last stop, the lookup index of every pixel is in
\* 0 .. glyphStopsLen - 1, and the renderer never indexes out of range.
C29_EdgeLookupInRange ==
    EdgeRendererRan =>
        /\ pc # "panic"
        /\ ~AboveStop(IdxOffset(effectiveAspectRatio), LastStop, effectiveAspectRatio)
        /\ ~AboveStop(GlyphStopsLen(effectiveAspectRatio) - 1 + IdxOffset(effectiveAspectRatio),
                      LastStop, effectiveAspectRatio)
        /\ \A k \in GridPixels :
              GradIdx(sobelImg.G_Grad[k], effectiveAspectRatio)
                  \in 0 .. GlyphStopsLen(effectiveAspectRatio) - 1

----------------------------------------------------------------------------
(* The 3-bit and 4-bit mappers: C27, C28 (specification SpecMap) *)

\* the channel spread: the largest pairwise difference among r, g, b
Spread(r, g, b) == Max(Max(Abs(r - g), Abs(g - b)), Abs(r - b))

\* the reward step as the claim states it
StatedRewards(awards, minRange, defaultRew, r, g, b) ==
    IF Spread(r, g, b) > minRange
    THEN LET top == Max(Max(r, g), b) IN
         <<IF r = top THEN r + awards[0] ELSE r,
           IF g = top THEN g + awards[1] ELSE g,
           IF b = top THEN b + awards[2] ELSE b>>
    ELSE <<r + defaultRew, g + defaultRew, b + defaultRew>>

\* the 3-bit or 4-bit mapper ran its reward step on the pixel
RewardStepRan ==
    /\ Mapped
    /\ a.ANSIColorMapper \in {"3bit", "4bit"}
    /\ TheLum > default3BitOpts.BlackLumUpper
    /\ TheLum < default3BitOpts.WhiteLumLower

\* C27, as stated: giveRewards adds the configured bonus to the dominant
\* channel, or to both when two tie for largest, when the spread exceeds
\* ColorRewardMinRange, and DefaultReward to all three channels in every
\* other case, the spread equal to the minimum range included.
C27_RewardDominantChannels ==
    RewardStepRan =>
        LET rgb == channelSplit(ThePixel) IN
        Rewarded(default3BitOpts, rgb)
            = StatedRewards(default3BitOpts.ColorRewards, default3BitOpts.ColorRewardMinRange,
                            default3BitOpts.DefaultReward, rgb[1], rgb[2], rgb[3])

\* 4-bit option values: the defaults and variations of the reward switch,
\* the black bound and the three bold bounds
FourBitOptionSamples ==
    {[ColorMapper3BitOptions |-> [default3BitOpts EXCEPT !.DoReward = rew, !.BlackLumUpper = bu],
      BoldColoredLumLower |-> bc,
      BoldBlackLumLower |-> bb,
      BoldWhiteLumLower |-> bw] :
        rew \in BOOLEAN, bu \in {50, 120}, bc \in {60, 100}, bb \in {0, 40, 60}, bw \in {200, 240}}

\* the bold lower bound that applies to a luminosity under options o
BoldBound(o, lum) ==
    IF lum <= o.ColorMapper3BitOptions.BlackLumUpper THEN o.BoldBlackLumLower
    ELSE IF lum >= o.ColorMapper3BitOptions.WhiteLumLower THEN o.BoldWhiteLumLower
    ELSE o.BoldColoredLumLower

\* C28: for every pixel and 4-bit options value the 4-bit code is the code
\* of the 3-bit mapper under the embedded 3-bit options, plus 60 exactly when
\* the luminosity reaches the applicable bold lower bound; every 4-bit code
\* is in 30 .. 37 or 90 .. 97.
C28_FourBitIsThreeBitOrBold ==
    (Mapped /\ a.ANSIColorMapper = "4bit") =>
        /\ ReturnedCode =
              default3BitColorMapper(default4BitOpts.ColorMapper3BitOptions, lumImg, 0, 0)[1]
              + (IF TheLum >= BoldBound(default4BitOpts, TheLum) THEN 60 ELSE 0)
        /\ ReturnedCode \in (30 .. 37) \cup (90 .. 97)
        /\ \A o \in FourBitOptionSamples :
              LET c4 == default4BitColorMapper(o, lumImg, 0, 0)[1]
                  c3 == default3BitColorMapper(o.ColorMapper3BitOptions, lumImg, 0, 0)[1]
              IN  /\ c4 = c3 + (IF TheLum >= BoldBound(o, TheLum) THEN 60 ELSE 0)
                  /\ c4 \in (30 .. 37) \cup (90 .. 97)

\* the opaque green pixel, luminosity 182: 32 from the 3-bit mapper, its
\* bold variant 92 from the 4-bit mapper
C28_Witness ==
    /\ Mapped /\ a.ANSIColorMapper = "4bit"
    /\ ThePixel = <<0, 255, 0, 255>>
    /\ TheLum = 182
    /\ default3BitColorMapper(default3BitOpts, lumImg, 0, 0)[1] = 32
    /\ ReturnedCode = 92

============================================================================
